---------------------------- MODULE Spec2Model ----------------------------
(***************************************************************************)
(* Authentication core of the services API: the JWT manager (pkg/jwt),     *)
(* the authentication middleware (pkg/auth), the auth service              *)
(* (Register / Login / RefreshToken) and the user service over the user    *)
(* repository.                                                             *)
(*                                                                         *)
(* Time is counted in ticks, TicksPerSecond ticks to the second, because   *)
(* the JWT library stores NumericDate values truncated to whole seconds    *)
(* while time.Now() is finer.                                              *)
(***************************************************************************)
EXTENDS Integers, Sequences, FiniteSets, TLC

VARIABLES
    apiKeys,     \* config.Config.APIKeys, fixed at start-up
    jwtManager,  \* Middleware.jwtManager: "set", or "nil" when none was given
    now,         \* the wall clock, in ticks
    issued,      \* the tokens the Manager has signed so far
    gate,        \* the last request seen by Middleware.Authenticate and its outcome
    users,       \* the users collection: id -> user document, or NoUser
    nextID,      \* the next fresh ObjectID
    last,        \* the last call of the auth / user service and its outcome
    revoked,     \* history: refresh tokens whose user was deleted or deactivated after issuance
    used,        \* history: refresh tokens RefreshToken has accepted before
    inflight,    \* the Register / Create / Update calls that have passed their checks and not yet written
    services,    \* the services collection: id -> service document, NoService or DeletedService
    updates,     \* history: id -> the Update and Patch calls of the service whose write succeeded
    connection   \* ConnectMongoDB: its position, its locals, the sleeps and the log lines so far

vars ==
    <<apiKeys, jwtManager, now, issued, gate, users, nextID, last, revoked, used, inflight,
      services, updates, connection>>

-----------------------------------------------------------------------------
(* Bounds of the model *)

TicksPerSecond == 2
MaxTime == 4
AccessTTL == 2
RefreshTTL == 4
MaxKeys == 2
MaxIssued == 2
MaxInflight == 2
MaxKeyLen == 3

-----------------------------------------------------------------------------
(* pkg/jwt *)

TokenTypeAccess == "access"
TokenTypeRefresh == "refresh"

ErrInvalidToken == "invalid token"
ErrExpiredToken == "token has expired"
ErrInvalidTokenType == "invalid token type"
NoError == "nil"

SecretKey == "secret"
AttackerKey == "other-secret"
Issuer == "services-api"

\* jwt.SigningMethodHMAC covers HS256, HS384 and HS512
HMACAlgs == {"HS256", "HS384", "HS512"}

NoToken == [form |-> "none"]
GarbageToken == [form |-> "garbage"]

\* jwt.NewNumericDate: the time truncated to whole seconds
NumericDate(t) == (t \div TicksPerSecond) * TicksPerSecond

\* the compact JWS a signer holding `key` produces for the claims under `alg`
SignedToken(alg, key, uid, email, role, typ, t, ttl) ==
    [form |-> "jws", alg |-> alg, key |-> key,
     uid |-> uid, email |-> email, role |-> role, typ |-> typ,
     exp |-> NumericDate(t + ttl), iat |-> NumericDate(t), nbf |-> NumericDate(t),
     iss |-> Issuer, sub |-> uid]

\* mutant: the token becomes valid a second after it was issued
generateToken_NotBeforeLater(uid, email, role, typ, ttl, t) ==
    [SignedToken("HS256", SecretKey, uid, email, role, typ, t, ttl) EXCEPT !.nbf = @ + TicksPerSecond]

\* mutant: the subject is left empty
generateToken_NoSubject(uid, email, role, typ, ttl, t) ==
    [SignedToken("HS256", SecretKey, uid, email, role, typ, t, ttl) EXCEPT !.sub = ""]

generateToken(uid, email, role, typ, ttl, t) ==
    SignedToken("HS256", SecretKey, uid, email, role, typ, t, ttl)

GenerateAccessToken(uid, email, role, t) ==
    generateToken(uid, email, role, TokenTypeAccess, AccessTTL, t)

GenerateRefreshToken(uid, email, role, t) ==
    generateToken(uid, email, role, TokenTypeRefresh, RefreshTTL, t)

Claims(tok) ==
    [uid |-> tok.uid, email |-> tok.email, role |-> tok.role, typ |-> tok.typ,
     exp |-> tok.exp, iat |-> tok.iat, nbf |-> tok.nbf, iss |-> tok.iss, sub |-> tok.sub]

NoClaims == [typ |-> "none"]

\* mutant: the registered claims are validated before the signature
ValidateToken_ClaimsFirst(tok, t) ==
    IF tok.form # "jws" THEN [err |-> ErrInvalidToken, claims |-> NoClaims]
    ELSE IF ~(t < tok.exp) THEN [err |-> ErrExpiredToken, claims |-> NoClaims]
    ELSE IF t < tok.nbf THEN [err |-> ErrInvalidToken, claims |-> NoClaims]
    ELSE IF tok.alg \notin HMACAlgs THEN [err |-> ErrInvalidToken, claims |-> NoClaims]
    ELSE IF tok.key # SecretKey THEN [err |-> ErrInvalidToken, claims |-> NoClaims]
    ELSE [err |-> NoError, claims |-> Claims(tok)]

\* mutant: the key function hands out the secret whatever the algorithm
ValidateToken_AnyAlg(tok, t) ==
    IF tok.form # "jws" THEN [err |-> ErrInvalidToken, claims |-> NoClaims]
    ELSE IF tok.key # SecretKey THEN [err |-> ErrInvalidToken, claims |-> NoClaims]
    ELSE IF ~(t < tok.exp) THEN [err |-> ErrExpiredToken, claims |-> NoClaims]
    ELSE IF t < tok.nbf THEN [err |-> ErrInvalidToken, claims |-> NoClaims]
    ELSE [err |-> NoError, claims |-> Claims(tok)]

\* Manager.ValidateToken at clock time t: parse, key function (HMAC only),
\* signature, then the registered claims (exp before nbf)
ValidateToken(tok, t) ==
    IF tok.form # "jws" THEN [err |-> ErrInvalidToken, claims |-> NoClaims]
    ELSE IF tok.alg \notin HMACAlgs THEN [err |-> ErrInvalidToken, claims |-> NoClaims]
    ELSE IF tok.key # SecretKey THEN [err |-> ErrInvalidToken, claims |-> NoClaims]
    ELSE IF ~(t < tok.exp) THEN [err |-> ErrExpiredToken, claims |-> NoClaims]
    ELSE IF t < tok.nbf THEN [err |-> ErrInvalidToken, claims |-> NoClaims]
    ELSE [err |-> NoError, claims |-> Claims(tok)]

ValidateAccessToken_NoTypeCheck(tok, t) == ValidateToken(tok, t)

ValidateAccessToken(tok, t) ==
    LET r == ValidateToken(tok, t) IN
    IF r.err # NoError THEN r
    ELSE IF r.claims.typ # TokenTypeAccess
         THEN [err |-> ErrInvalidTokenType, claims |-> NoClaims]
         ELSE r

ValidateRefreshToken_NoTypeCheck(tok, t) == ValidateToken(tok, t)

ValidateRefreshToken(tok, t) ==
    LET r == ValidateToken(tok, t) IN
    IF r.err # NoError THEN r
    ELSE IF r.claims.typ # TokenTypeRefresh
         THEN [err |-> ErrInvalidTokenType, claims |-> NoClaims]
         ELSE r

-----------------------------------------------------------------------------
(* pkg/config *)

\* the values a configured key or an X-API-Key header may take; "" is the
\* entry strings.Split leaves between two adjacent commas of API_KEYS
KeyValues == {"", "k1", "k2"}

RECURSIVE SeqsUpTo(_, _)
SeqsUpTo(S, n) ==
    IF n = 0 THEN {<<>>}
    ELSE LET shorter == SeqsUpTo(S, n - 1) IN
         shorter \cup {Append(q, x) : q \in {r \in shorter : Len(r) = n - 1}, x \in S}

\* every list Load can produce: none (API_KEYS unset) or the trimmed parts
KeyConfigs == SeqsUpTo(KeyValues, MaxKeys)

HasAPIKeys(keys) == Len(keys) > 0

-----------------------------------------------------------------------------
(* pkg/auth: the middleware *)

BearerPrefix == "Bearer "
HealthPath == "/health"
AuthTypeAPIKey == "api_key"
AuthTypeJWT == "jwt"
StatusOK == 200
StatusUnauthorized == 401

\* context.Context as the middleware uses it: the keys set, and their values
\* (Go's zero value where a key is not set)
EmptyCtx == [present |-> {}, authType |-> "", userID |-> "", email |-> "", role |-> "", apiKeyID |-> 0]

\* []byte(s) of the key strings the model uses
Bytes(s) ==
    CASE s = "" -> <<>>
      [] s = "k1" -> <<107, 49>>
      [] s = "k2" -> <<107, 50>>
      [] s = "k3" -> <<107, 51>>

\* the loop of subtle.ConstantTimeCompare from byte i on: v gathers the
\* differences (0 while none was seen), n counts the bytes compared
RECURSIVE compareFrom(_, _, _, _, _)
compareFrom(x, y, i, v, n) ==
    IF i > Len(x) THEN [result |-> IF v = 0 THEN 1 ELSE 0, work |-> n]
    ELSE compareFrom(x, y, i + 1, IF x[i] = y[i] THEN v ELSE 1, n + 1)

\* a comparison that returns at the first byte that differs
RECURSIVE compareUntilMismatch(_, _, _, _)
compareUntilMismatch(x, y, i, n) ==
    IF i > Len(x) THEN [result |-> 1, work |-> n]
    ELSE IF x[i] # y[i] THEN [result |-> 0, work |-> n + 1]
    ELSE compareUntilMismatch(x, y, i + 1, n + 1)

\* mutant: the comparison stops at the first mismatch
ConstantTimeCompare_ShortCircuit(x, y) ==
    IF Len(x) # Len(y) THEN [result |-> 0, work |-> 0]
    ELSE compareUntilMismatch(x, y, 1, 0)

\* subtle.ConstantTimeCompare(x, y): 1 iff equal, and the number of byte
\* comparisons it made; slices of different length are not compared at all
ConstantTimeCompare(x, y) ==
    IF Len(x) # Len(y) THEN [result |-> 0, work |-> 0]
    ELSE compareFrom(x, y, 1, 0, 0)

\* the same on byte slices
secureCompareBytes(a, b) == ConstantTimeCompare(a, b).result = 1

\* secureCompare(a, b): subtle.ConstantTimeCompare([]byte(a), []byte(b)) == 1
secureCompare(a, b) == secureCompareBytes(Bytes(a), Bytes(b))

RECURSIVE findFrom(_, _, _)
findFrom(keys, providedKey, i) ==
    IF i > Len(keys) THEN -1
    ELSE IF secureCompare(providedKey, keys[i]) THEN i - 1
    ELSE findFrom(keys, providedKey, i + 1)

RECURSIVE findLastFrom(_, _, _)
findLastFrom(keys, providedKey, i) ==
    IF i < 1 THEN -1
    ELSE IF secureCompare(providedKey, keys[i]) THEN i - 1
    ELSE findLastFrom(keys, providedKey, i - 1)

findValidKeyIndex_LastMatch(keys, providedKey) == findLastFrom(keys, providedKey, Len(keys))

\* the 0-based index of the first configured key equal to providedKey, or -1
findValidKeyIndex(keys, providedKey) == findFrom(keys, providedKey, 1)

authenticateJWT_DropsEmail(ctx, mgr, tok, t) ==
    LET r == ValidateAccessToken(tok, t) IN
    IF mgr = "nil" THEN [ok |-> FALSE, ctx |-> ctx]
    ELSE IF r.err # NoError THEN [ok |-> FALSE, ctx |-> ctx]
    ELSE [ok |-> TRUE,
          ctx |-> [ctx EXCEPT !.present = @ \cup {"user_id", "user_role", "auth_type"},
                              !.userID = r.claims.uid,
                              !.role = r.claims.role,
                              !.authType = AuthTypeJWT]]

\* mutant: the token's user is looked up and must be stored and active
authenticateJWT_ChecksUser(ctx, mgr, tok, t) ==
    LET r == ValidateAccessToken(tok, t) IN
    IF mgr = "nil" THEN [ok |-> FALSE, ctx |-> ctx]
    ELSE IF r.err # NoError THEN [ok |-> FALSE, ctx |-> ctx]
    ELSE IF ~(r.claims.uid \in DOMAIN users /\ users[r.claims.uid].exists /\ users[r.claims.uid].active)
    THEN [ok |-> FALSE, ctx |-> ctx]
    ELSE [ok |-> TRUE,
          ctx |-> [ctx EXCEPT !.present = @ \cup {"user_id", "user_email", "user_role", "auth_type"},
                              !.userID = r.claims.uid,
                              !.email = r.claims.email,
                              !.role = r.claims.role,
                              !.authType = AuthTypeJWT]]

authenticateJWT(ctx, mgr, tok, t) ==
    LET r == ValidateAccessToken(tok, t) IN
    IF mgr = "nil" THEN [ok |-> FALSE, ctx |-> ctx]
    ELSE IF r.err # NoError THEN [ok |-> FALSE, ctx |-> ctx]
    ELSE [ok |-> TRUE,
          ctx |-> [ctx EXCEPT !.present = @ \cup {"user_id", "user_email", "user_role", "auth_type"},
                              !.userID = r.claims.uid,
                              !.email = r.claims.email,
                              !.role = r.claims.role,
                              !.authType = AuthTypeJWT]]

authenticateAPIKey_FailOpen(ctx, keys, apiKey) ==
    LET keyIndex == findValidKeyIndex(keys, apiKey) IN
    IF HasAPIKeys(keys) /\ keyIndex = -1 THEN [ok |-> FALSE, ctx |-> ctx]
    ELSE [ok |-> TRUE,
          ctx |-> [ctx EXCEPT !.present = @ \cup {"api_key_id", "auth_type"},
                              !.apiKeyID = IF keyIndex = -1 THEN 0 ELSE keyIndex,
                              !.authType = AuthTypeAPIKey]]

authenticateAPIKey(ctx, keys, apiKey) ==
    IF ~HasAPIKeys(keys) THEN [ok |-> FALSE, ctx |-> ctx]
    ELSE LET keyIndex == findValidKeyIndex(keys, apiKey) IN
         IF keyIndex = -1 THEN [ok |-> FALSE, ctx |-> ctx]
         ELSE [ok |-> TRUE,
               ctx |-> [ctx EXCEPT !.present = @ \cup {"api_key_id", "auth_type"},
                                   !.apiKeyID = keyIndex,
                                   !.authType = AuthTypeAPIKey]]

\* the two characters escapeJSON treats specially
Backslash == "\\"
Quote == "\""

\* reason strings with backslashes and quotes in them, for direct calls of
\* writeUnauthorizedResponse
Reasons ==
    {"", "x", "\\", "\"", "x\\", "\\x", "x\"", "\"x", "\\\\", "\\\"", "\"\\", "\"\"",
     "say \"hi\"", "C:\\tmp", "\\\"x\"\\", "x\\\\\"y"}

\* the characters of a string, a run of ordinary characters being one element
Chars(s) ==
    CASE s = "" -> <<>>
      [] s = "\\" -> <<Backslash>>
      [] s = "\"" -> <<Quote>>
      [] s = "x\\" -> <<"x", Backslash>>
      [] s = "\\x" -> <<Backslash, "x">>
      [] s = "x\"" -> <<"x", Quote>>
      [] s = "\"x" -> <<Quote, "x">>
      [] s = "\\\\" -> <<Backslash, Backslash>>
      [] s = "\\\"" -> <<Backslash, Quote>>
      [] s = "\"\\" -> <<Quote, Backslash>>
      [] s = "\"\"" -> <<Quote, Quote>>
      [] s = "say \"hi\"" -> <<"say ", Quote, "hi", Quote>>
      [] s = "C:\\tmp" -> <<"C:", Backslash, "tmp">>
      [] s = "\\\"x\"\\" -> <<Backslash, Quote, "x", Quote, Backslash>>
      [] s = "x\\\\\"y" -> <<"x", Backslash, Backslash, Quote, "y">>
      [] OTHER -> <<s>>

\* strings.ReplaceAll(s, old, new) for a one-character old
RECURSIVE ReplaceAll(_, _, _)
ReplaceAll(s, old, new) ==
    IF s = <<>> THEN <<>>
    ELSE (IF Head(s) = old THEN new ELSE <<Head(s)>>) \o ReplaceAll(Tail(s), old, new)

\* mutant: the quotes are escaped before the backslashes are doubled
escapeJSON_QuotesFirst(s) ==
    ReplaceAll(ReplaceAll(s, Quote, <<Backslash, Quote>>), Backslash, <<Backslash, Backslash>>)

escapeJSON(s) ==
    ReplaceAll(ReplaceAll(s, Backslash, <<Backslash, Backslash>>), Quote, <<Backslash, Quote>>)

\* `{"error":"unauthorized","message":"` and `"}`
BodyPrefix ==
    <<"{", Quote, "error", Quote, ":", Quote, "unauthorized", Quote, ",",
      Quote, "message", Quote, ":", Quote>>
BodySuffix == <<Quote, "}">>

\* next.ServeHTTP(w, r.WithContext(ctx)): the downstream handler answers
PassedOn(req, ctx) ==
    [req |-> req, status |-> StatusOK, message |-> "", next |-> TRUE, ctx |-> ctx,
     contentType |-> "", body |-> <<>>]

\* writeUnauthorizedResponse(w, message): 401, the downstream handler is not called
writeUnauthorizedResponse(req, message) ==
    [req |-> req, status |-> StatusUnauthorized, message |-> message, next |-> FALSE, ctx |-> EmptyCtx,
     contentType |-> "application/json",
     body |-> BodyPrefix \o escapeJSON(Chars(message)) \o BodySuffix]

HasBearerPrefix(authHeader) == authHeader.scheme = BearerPrefix
TrimBearerPrefix(authHeader) == authHeader.cred

\* mutant: a request with a valid Bearer token and a valid API key gets both identities
AuthenticateResponse_BothIdentities(req, keys, mgr, t) ==
    LET jwt == authenticateJWT(EmptyCtx, mgr, TrimBearerPrefix(req.authorization), t)
        key == authenticateAPIKey(EmptyCtx, keys, req.apiKey)
        both == authenticateAPIKey(jwt.ctx, keys, req.apiKey) IN
    IF req.path = HealthPath THEN PassedOn(req, EmptyCtx)
    ELSE IF HasBearerPrefix(req.authorization)
         THEN IF jwt.ok THEN PassedOn(req, IF req.apiKey # "" /\ both.ok THEN both.ctx ELSE jwt.ctx)
              ELSE writeUnauthorizedResponse(req, "invalid or expired token")
    ELSE IF req.apiKey # ""
         THEN IF key.ok THEN PassedOn(req, key.ctx)
              ELSE writeUnauthorizedResponse(req, "invalid credentials")
    ELSE writeUnauthorizedResponse(req, "authentication required")

\* mutant: a failed Bearer attempt is told what was wrong with the token
AuthenticateResponse_TellsWhy(req, keys, mgr, t) ==
    LET jwt == authenticateJWT(EmptyCtx, mgr, TrimBearerPrefix(req.authorization), t)
        key == authenticateAPIKey(EmptyCtx, keys, req.apiKey) IN
    IF req.path = HealthPath THEN PassedOn(req, EmptyCtx)
    ELSE IF HasBearerPrefix(req.authorization)
         THEN IF jwt.ok THEN PassedOn(req, jwt.ctx)
              ELSE writeUnauthorizedResponse(req, ValidateAccessToken(TrimBearerPrefix(req.authorization), t).err)
    ELSE IF req.apiKey # ""
         THEN IF key.ok THEN PassedOn(req, key.ctx)
              ELSE writeUnauthorizedResponse(req, "invalid credentials")
    ELSE writeUnauthorizedResponse(req, "authentication required")

\* mutant: a failed Bearer attempt falls through to the X-API-Key path
AuthenticateResponse_Fallback(req, keys, mgr, t) ==
    LET jwt == authenticateJWT(EmptyCtx, mgr, TrimBearerPrefix(req.authorization), t)
        key == authenticateAPIKey(EmptyCtx, keys, req.apiKey) IN
    IF req.path = HealthPath THEN PassedOn(req, EmptyCtx)
    ELSE IF HasBearerPrefix(req.authorization) /\ jwt.ok THEN PassedOn(req, jwt.ctx)
    ELSE IF req.apiKey # ""
         THEN IF key.ok THEN PassedOn(req, key.ctx)
              ELSE writeUnauthorizedResponse(req, "invalid credentials")
    ELSE IF HasBearerPrefix(req.authorization)
         THEN writeUnauthorizedResponse(req, "invalid or expired token")
    ELSE writeUnauthorizedResponse(req, "authentication required")

\* mutant: the X-API-Key header is looked up even when it is empty
AuthenticateResponse_EmptyKeyTried(req, keys, mgr, t) ==
    LET jwt == authenticateJWT(EmptyCtx, mgr, TrimBearerPrefix(req.authorization), t)
        key == authenticateAPIKey(EmptyCtx, keys, req.apiKey) IN
    IF req.path = HealthPath THEN PassedOn(req, EmptyCtx)
    ELSE IF HasBearerPrefix(req.authorization)
         THEN IF jwt.ok THEN PassedOn(req, jwt.ctx)
              ELSE writeUnauthorizedResponse(req, "invalid or expired token")
    ELSE IF key.ok THEN PassedOn(req, key.ctx)
    ELSE IF req.apiKey # "" THEN writeUnauthorizedResponse(req, "invalid credentials")
    ELSE writeUnauthorizedResponse(req, "authentication required")

\* mutant: the health path is authenticated like every other path
AuthenticateResponse_NoBypass(req, keys, mgr, t) ==
    LET jwt == authenticateJWT(EmptyCtx, mgr, TrimBearerPrefix(req.authorization), t)
        key == authenticateAPIKey(EmptyCtx, keys, req.apiKey) IN
    IF HasBearerPrefix(req.authorization)
    THEN IF jwt.ok THEN PassedOn(req, jwt.ctx)
         ELSE writeUnauthorizedResponse(req, "invalid or expired token")
    ELSE IF req.apiKey # ""
         THEN IF key.ok THEN PassedOn(req, key.ctx)
              ELSE writeUnauthorizedResponse(req, "invalid credentials")
    ELSE writeUnauthorizedResponse(req, "authentication required")

\* the handler Middleware.Authenticate wraps around next, at clock time t
AuthenticateResponse(req, keys, mgr, t) ==
    LET jwt == authenticateJWT(EmptyCtx, mgr, TrimBearerPrefix(req.authorization), t)
        key == authenticateAPIKey(EmptyCtx, keys, req.apiKey) IN
    IF req.path = HealthPath THEN PassedOn(req, EmptyCtx)
    ELSE IF HasBearerPrefix(req.authorization)
         THEN IF jwt.ok THEN PassedOn(req, jwt.ctx)
              ELSE writeUnauthorizedResponse(req, "invalid or expired token")
    ELSE IF req.apiKey # ""
         THEN IF key.ok THEN PassedOn(req, key.ctx)
              ELSE writeUnauthorizedResponse(req, "invalid credentials")
    ELSE writeUnauthorizedResponse(req, "authentication required")

-----------------------------------------------------------------------------
(* internal/domain: users, passwords, errors *)

RoleUser == "user"
RoleAdmin == "admin"

\* no document
NoUser == [exists |-> FALSE]

ErrEmailRequired == "email is required"
ErrEmailInvalid == "email format is invalid"
ErrEmailTooLong == "email must be at most 255 characters"
ErrPasswordRequired == "password is required"
ErrPasswordTooShort == "password must be at least 8 characters"
ErrPasswordTooLong == "password must be at most 72 characters"
ErrInvalidCredentials == "invalid credentials"
ErrEmailAlreadyExists == "email already exists"
ErrUserNotFound == "user not found"
ErrInvalidRole == "invalid role"
ErrFirstNameRequired == "first name is required"
ErrFirstNameTooLong == "first name must be at most 100 characters"
ErrInvalidID == "invalid ID format"

\* stand-ins for strings longer than the validators allow
LongEmail == "<250 characters>@x.io"
LongPassword == "<73 characters>"
LongName == "<101 characters>"
LongServiceName == "<256 characters>"
LongDescription == "<1001 characters>"

\* len(s) of the strings the model uses
StrLen(s) ==
    CASE s = "" -> 0
      [] s = " " -> 1
      [] s = "Al" -> 2
      [] s \in {"n1", "n2", "d1", "d2"} -> 2
      [] s = "short" -> 5
      [] s \in {"a@x.io", "A@x.io", "b@x.io"} -> 6
      [] s \in {"password1", "password2"} -> 9
      [] s = "not-an-email" -> 12
      [] s = LongPassword -> 73
      [] s = LongName -> 101
      [] s = LongEmail -> 256
      [] s = LongServiceName -> 256
      [] s = LongDescription -> 1001

\* emailRegex.MatchString
MatchesEmailRegex(s) == s \in {"a@x.io", "A@x.io", "b@x.io", LongEmail}

\* strings.ToLower
ToLower(s) == IF s = "A@x.io" THEN "a@x.io" ELSE s

\* strings.TrimSpace
TrimSpace(s) == IF s = " " THEN "" ELSE s

IsValidRole(role) == role = RoleUser \/ role = RoleAdmin

\* bcrypt.GenerateFromPassword: a digest of the password under a fresh salt
Salts == {"salt1"}
SetPassword(password, salt) == [alg |-> "bcrypt", salt |-> salt, digest |-> <<salt, password>>]

\* bcrypt.CompareHashAndPassword(hash, password) == nil
CheckPassword(hash, password) == hash.digest = <<hash.salt, password>>

\* primitive.NewObjectID, in the order the ids are handed out
HexIDs == <<"oid1", "oid2">>
UserIDs == {HexIDs[n] : n \in 1..Len(HexIDs)}
UnknownID == "oid9"
MalformedID == "not-hex"

-----------------------------------------------------------------------------
(* internal/repository: MongoUserRepository over the users collection,     *)
(* which has a unique index on email                                       *)

Stored(us) == {id \in DOMAIN us : us[id].exists}

ExistsByEmail(us, email) == \E id \in Stored(us) : us[id].email = email

GetByEmail(us, email) ==
    IF ExistsByEmail(us, email)
    THEN [err |-> NoError, user |-> us[CHOOSE id \in Stored(us) : us[id].email = email]]
    ELSE [err |-> ErrUserNotFound, user |-> NoUser]

GetByID(us, id) ==
    IF id = MalformedID THEN [err |-> ErrInvalidID, user |-> NoUser]
    ELSE IF id \in Stored(us) THEN [err |-> NoError, user |-> us[id]]
    ELSE [err |-> ErrUserNotFound, user |-> NoUser]

\* mutant: the collection has no unique index on email
RepoCreate_NoUniqueIndex(us, user) ==
    [err |-> NoError,
     users |-> [id \in DOMAIN us \cup {user.id} |-> IF id = user.id THEN user ELSE us[id]]]

\* InsertOne; the unique index turns a second document with the email away
RepoCreate(us, user) ==
    IF ExistsByEmail(us, user.email) THEN [err |-> ErrEmailAlreadyExists, users |-> us]
    ELSE [err |-> NoError,
          users |-> [id \in DOMAIN us \cup {user.id} |-> IF id = user.id THEN user ELSE us[id]]]

\* UpdateOne by _id
RepoUpdate(us, user) ==
    IF \E id \in Stored(us) : id # user.id /\ us[id].email = user.email
    THEN [err |-> ErrEmailAlreadyExists, users |-> us]
    ELSE IF user.id \notin Stored(us) THEN [err |-> ErrUserNotFound, users |-> us]
    ELSE [err |-> NoError, users |-> [us EXCEPT ![user.id] = user]]

\* DeleteOne by _id
RepoDelete(us, id) ==
    IF id = MalformedID THEN [err |-> ErrInvalidID, users |-> us]
    ELSE IF id \notin Stored(us) THEN [err |-> ErrUserNotFound, users |-> us]
    ELSE [err |-> NoError, users |-> [us EXCEPT ![id] = NoUser]]

-----------------------------------------------------------------------------
(* internal/service: AuthService *)

validateRegisterRequest(req) ==
    IF req.email = "" THEN ErrEmailRequired
    ELSE IF StrLen(req.email) > 255 THEN ErrEmailTooLong
    ELSE IF ~MatchesEmailRegex(req.email) THEN ErrEmailInvalid
    ELSE IF req.password = "" THEN ErrPasswordRequired
    ELSE IF StrLen(req.password) < 8 THEN ErrPasswordTooShort
    ELSE IF StrLen(req.password) > 72 THEN ErrPasswordTooLong
    ELSE IF TrimSpace(req.firstName) = "" THEN ErrFirstNameRequired
    ELSE IF StrLen(req.firstName) > 100 THEN ErrFirstNameTooLong
    ELSE NoError

Failed(err, us) == [err |-> err, users |-> us, access |-> NoToken, refresh |-> NoToken]

\* generateAuthResponse: an access and a refresh token for the user as given
generateAuthResponse(user, us, t) ==
    [err |-> NoError, users |-> us,
     access |-> GenerateAccessToken(user.id, user.email, user.role, t),
     refresh |-> GenerateRefreshToken(user.id, user.email, user.role, t)]

\* mutant: the new account is made an administrator
Register_AsAdmin(req, us, id, salt, t) ==
    LET user == [exists |-> TRUE, id |-> id, email |-> ToLower(req.email),
                 passwordHash |-> SetPassword(req.password, salt),
                 role |-> RoleAdmin, active |-> TRUE]
        created == RepoCreate(us, user) IN
    IF validateRegisterRequest(req) # NoError THEN Failed(validateRegisterRequest(req), us)
    ELSE IF ExistsByEmail(us, ToLower(req.email)) THEN Failed(ErrEmailAlreadyExists, us)
    ELSE IF created.err # NoError THEN Failed(created.err, us)
    ELSE generateAuthResponse(user, created.users, t)

\* AuthService.Register; id and salt are what NewObjectID and bcrypt draw
Register(req, us, id, salt, t) ==
    LET user == [exists |-> TRUE, id |-> id, email |-> ToLower(req.email),
                 passwordHash |-> SetPassword(req.password, salt),
                 role |-> RoleUser, active |-> TRUE]
        created == RepoCreate(us, user) IN
    IF validateRegisterRequest(req) # NoError THEN Failed(validateRegisterRequest(req), us)
    ELSE IF ExistsByEmail(us, ToLower(req.email)) THEN Failed(ErrEmailAlreadyExists, us)
    ELSE IF created.err # NoError THEN Failed(created.err, us)
    ELSE generateAuthResponse(user, created.users, t)

\* mutant: an inactive account is reported as such
Login_TellsInactive(req, us, t) ==
    LET found == GetByEmail(us, ToLower(req.email)) IN
    IF req.email = "" THEN Failed(ErrEmailRequired, us)
    ELSE IF req.password = "" THEN Failed(ErrPasswordRequired, us)
    ELSE IF found.err # NoError THEN Failed(ErrInvalidCredentials, us)
    ELSE IF ~found.user.active THEN Failed("account is inactive", us)
    ELSE IF ~CheckPassword(found.user.passwordHash, req.password) THEN Failed(ErrInvalidCredentials, us)
    ELSE generateAuthResponse(found.user, us, t)

\* mutant: the email is looked up as typed
Login_CaseSensitive(req, us, t) ==
    LET found == GetByEmail(us, req.email) IN
    IF req.email = "" THEN Failed(ErrEmailRequired, us)
    ELSE IF req.password = "" THEN Failed(ErrPasswordRequired, us)
    ELSE IF found.err # NoError THEN Failed(ErrInvalidCredentials, us)
    ELSE IF ~found.user.active THEN Failed(ErrInvalidCredentials, us)
    ELSE IF ~CheckPassword(found.user.passwordHash, req.password) THEN Failed(ErrInvalidCredentials, us)
    ELSE generateAuthResponse(found.user, us, t)

\* AuthService.Login
Login(req, us, t) ==
    LET found == GetByEmail(us, ToLower(req.email)) IN
    IF req.email = "" THEN Failed(ErrEmailRequired, us)
    ELSE IF req.password = "" THEN Failed(ErrPasswordRequired, us)
    ELSE IF found.err # NoError
         THEN IF found.err = ErrUserNotFound THEN Failed(ErrInvalidCredentials, us)
              ELSE Failed(found.err, us)
    ELSE IF ~found.user.active THEN Failed(ErrInvalidCredentials, us)
    ELSE IF ~CheckPassword(found.user.passwordHash, req.password) THEN Failed(ErrInvalidCredentials, us)
    ELSE generateAuthResponse(found.user, us, t)

\* mutant: the user is looked up but not checked for being active
RefreshToken_IgnoresActive(tok, us, t) ==
    LET r == ValidateRefreshToken(tok, t)
        found == GetByID(us, r.claims.uid) IN
    IF r.err # NoError THEN Failed(ErrInvalidCredentials, us)
    ELSE IF found.err # NoError THEN Failed(ErrInvalidCredentials, us)
    ELSE generateAuthResponse(found.user, us, t)

\* mutant: a refresh token is good for one exchange only
RefreshToken_OneTime(tok, us, t) ==
    LET r == ValidateRefreshToken(tok, t)
        found == GetByID(us, r.claims.uid) IN
    IF r.err # NoError THEN Failed(ErrInvalidCredentials, us)
    ELSE IF tok \in used THEN Failed(ErrInvalidCredentials, us)
    ELSE IF found.err # NoError THEN Failed(ErrInvalidCredentials, us)
    ELSE IF ~found.user.active THEN Failed(ErrInvalidCredentials, us)
    ELSE generateAuthResponse(found.user, us, t)

\* mutant: the new tokens repeat the claims of the refresh token presented
RefreshToken_FromClaims(tok, us, t) ==
    LET r == ValidateRefreshToken(tok, t)
        found == GetByID(us, r.claims.uid) IN
    IF r.err # NoError THEN Failed(ErrInvalidCredentials, us)
    ELSE IF found.err # NoError THEN Failed(ErrInvalidCredentials, us)
    ELSE IF ~found.user.active THEN Failed(ErrInvalidCredentials, us)
    ELSE generateAuthResponse([found.user EXCEPT !.email = r.claims.email, !.role = r.claims.role],
                              us, t)

\* AuthService.RefreshToken
RefreshToken(tok, us, t) ==
    LET r == ValidateRefreshToken(tok, t)
        found == GetByID(us, r.claims.uid) IN
    IF r.err # NoError THEN Failed(ErrInvalidCredentials, us)
    ELSE IF found.err # NoError THEN Failed(ErrInvalidCredentials, us)
    ELSE IF ~found.user.active THEN Failed(ErrInvalidCredentials, us)
    ELSE generateAuthResponse(found.user, us, t)

-----------------------------------------------------------------------------
(* internal/service: UserService *)

validateCreateRequest(req) ==
    IF req.email = "" THEN ErrEmailRequired
    ELSE IF StrLen(req.email) > 255 THEN ErrEmailTooLong
    ELSE IF ~MatchesEmailRegex(req.email) THEN ErrEmailInvalid
    ELSE IF req.password = "" THEN ErrPasswordRequired
    ELSE IF StrLen(req.password) < 8 THEN ErrPasswordTooShort
    ELSE IF StrLen(req.password) > 72 THEN ErrPasswordTooLong
    ELSE IF TrimSpace(req.firstName) = "" THEN ErrFirstNameRequired
    ELSE IF StrLen(req.firstName) > 100 THEN ErrFirstNameTooLong
    ELSE IF ~IsValidRole(IF req.role = "" THEN RoleUser ELSE req.role) THEN ErrInvalidRole
    ELSE NoError

validateUpdateRequest(req) ==
    IF req.email = "" THEN ErrEmailRequired
    ELSE IF StrLen(req.email) > 255 THEN ErrEmailTooLong
    ELSE IF ~MatchesEmailRegex(req.email) THEN ErrEmailInvalid
    ELSE IF TrimSpace(req.firstName) = "" THEN ErrFirstNameRequired
    ELSE IF StrLen(req.firstName) > 100 THEN ErrFirstNameTooLong
    ELSE IF ~IsValidRole(req.role) THEN ErrInvalidRole
    ELSE NoError

\* UserService.Create; the request is validated in a copy, so the role is
\* stored as the caller gave it
Create(req, us, id, salt) ==
    LET user == [exists |-> TRUE, id |-> id, email |-> ToLower(req.email),
                 passwordHash |-> SetPassword(req.password, salt),
                 role |-> req.role, active |-> TRUE]
        created == RepoCreate(us, user) IN
    IF validateCreateRequest(req) # NoError THEN Failed(validateCreateRequest(req), us)
    ELSE IF ExistsByEmail(us, ToLower(req.email)) THEN Failed(ErrEmailAlreadyExists, us)
    ELSE created @@ [access |-> NoToken, refresh |-> NoToken]

\* UserService.Update; req.active is "nil", TRUE or FALSE
Update(id, req, us) ==
    LET found == GetByID(us, id)
        newEmail == ToLower(req.email)
        user == [found.user EXCEPT !.email = newEmail,
                                   !.role = req.role,
                                   !.active = IF req.active = "nil" THEN @ ELSE req.active = "true"]
        saved == RepoUpdate(us, user) IN
    IF validateUpdateRequest(req) # NoError THEN Failed(validateUpdateRequest(req), us)
    ELSE IF found.err # NoError THEN Failed(found.err, us)
    ELSE IF newEmail # found.user.email /\ ExistsByEmail(us, newEmail) THEN Failed(ErrEmailAlreadyExists, us)
    ELSE saved @@ [access |-> NoToken, refresh |-> NoToken]

\* UserService.ChangePassword
ChangePassword(userID, req, us, salt) ==
    LET found == GetByID(us, userID)
        user == [found.user EXCEPT !.passwordHash = SetPassword(req.newPassword, salt)] IN
    IF req.currentPassword = "" THEN Failed(ErrPasswordRequired, us)
    ELSE IF req.newPassword = "" THEN Failed(ErrPasswordRequired, us)
    ELSE IF StrLen(req.newPassword) < 8 THEN Failed(ErrPasswordTooShort, us)
    ELSE IF StrLen(req.newPassword) > 72 THEN Failed(ErrPasswordTooLong, us)
    ELSE IF found.err # NoError THEN Failed(found.err, us)
    ELSE IF ~CheckPassword(found.user.passwordHash, req.currentPassword) THEN Failed(ErrInvalidCredentials, us)
    ELSE RepoUpdate(us, user) @@ [access |-> NoToken, refresh |-> NoToken]

\* UserService.Delete
Delete(id, us) == RepoDelete(us, id) @@ [access |-> NoToken, refresh |-> NoToken]

-----------------------------------------------------------------------------
(* internal/handler: AuthHandler *)

StatusCreated == 201
StatusBadRequest == 400
StatusConflict == 409
StatusInternalServerError == 500

\* response.Unauthorized(w, message)
Unauthorized(message) == [status |-> StatusUnauthorized, error |-> "unauthorized", message |-> message]

\* AuthHandler.handleError: the status, error code and message written for err
handleError(err) ==
    IF err \in {ErrEmailRequired, ErrEmailInvalid, ErrEmailTooLong, ErrPasswordRequired,
                ErrPasswordTooShort, ErrPasswordTooLong, ErrFirstNameRequired, ErrFirstNameTooLong}
    THEN [status |-> StatusBadRequest, error |-> "bad_request", message |-> err]
    ELSE IF err = ErrEmailAlreadyExists
    THEN [status |-> StatusConflict, error |-> "conflict", message |-> err]
    ELSE IF err = ErrInvalidCredentials THEN Unauthorized("invalid credentials")
    ELSE [status |-> StatusInternalServerError, error |-> "internal_error", message |-> "internal server error"]

\* what a handler writes for the service's result: response.OK / Created, or the error
Written(okStatus, res) ==
    IF res.err = NoError THEN [status |-> okStatus, error |-> "", message |-> ""]
    ELSE handleError(res.err)

-----------------------------------------------------------------------------
(* internal/handler: UserHandler, behind the middleware *)

StatusNoContent == 204
StatusForbidden == 403
StatusNotFound == 404

\* auth.GetUserID / auth.GetUserRole: the value and whether the key is set
GetUserID(ctx) ==
    [value |-> IF "user_id" \in ctx.present THEN ctx.userID ELSE "", ok |-> "user_id" \in ctx.present]
GetUserRole(ctx) ==
    [value |-> IF "user_role" \in ctx.present THEN ctx.role ELSE "", ok |-> "user_role" \in ctx.present]

\* response.Forbidden, response.NotFound, response.BadRequest
Forbidden(message) == [status |-> StatusForbidden, error |-> "forbidden", message |-> message]
NotFound(message) == [status |-> StatusNotFound, error |-> "not_found", message |-> message]
BadRequest(message) == [status |-> StatusBadRequest, error |-> "bad_request", message |-> message]
\* response.OK, response.Created, response.NoContent
Success(status) == [status |-> status, error |-> "", message |-> ""]

\* mutant: a caller without a role in its context counts as an administrator
isAdmin_RolelessIsAdmin(ctx) ==
    LET role == GetUserRole(ctx) IN
    IF ~role.ok THEN TRUE ELSE role.value = RoleAdmin

\* UserHandler.isAdmin
isAdmin(ctx) ==
    LET role == GetUserRole(ctx) IN
    IF ~role.ok THEN FALSE ELSE role.value = RoleAdmin

\* mutant: a caller with a user id may read any user
canAccessUser_AnyUser(ctx, targetUserID) ==
    LET currentUserID == GetUserID(ctx) IN
    IF isAdmin(ctx) THEN TRUE
    ELSE IF ~currentUserID.ok THEN FALSE
    ELSE TRUE

\* UserHandler.canAccessUser
canAccessUser(ctx, targetUserID) ==
    LET currentUserID == GetUserID(ctx) IN
    IF isAdmin(ctx) THEN TRUE
    ELSE IF ~currentUserID.ok THEN FALSE
    ELSE currentUserID.value = targetUserID

\* UserHandler.handleError
UserHandlerError(err) ==
    IF err = ErrUserNotFound THEN NotFound("user not found")
    ELSE IF err = ErrInvalidID THEN BadRequest("invalid user id format")
    ELSE IF err = ErrEmailAlreadyExists THEN [status |-> StatusConflict, error |-> "conflict", message |-> err]
    ELSE IF err = ErrInvalidCredentials THEN Unauthorized("invalid credentials")
    ELSE IF err \in {ErrEmailRequired, ErrEmailInvalid, ErrEmailTooLong, ErrPasswordRequired,
                     ErrPasswordTooShort, ErrPasswordTooLong, ErrFirstNameRequired,
                     ErrFirstNameTooLong, ErrInvalidRole}
    THEN BadRequest(err)
    ELSE [status |-> StatusInternalServerError, error |-> "internal_error", message |-> "internal server error"]

\* what a handler of UserHandler leaves behind: the response, the service
\* method it called ("" where it called none), the users the response
\* shows, and the store
Answer(http, called, shown, us) == [http |-> http, called |-> called, shown |-> shown, users |-> us]

\* UserHandler.Create; body.decodes says whether the body is JSON for the request
UserHandlerCreate(ctx, body, us, id, salt) ==
    LET res == Create(body.req, us, id, salt) IN
    IF ~isAdmin(ctx) THEN Answer(Forbidden("admin access required"), "", {}, us)
    ELSE IF ~body.decodes THEN Answer(BadRequest("invalid request body"), "", {}, us)
    ELSE IF res.err # NoError THEN Answer(UserHandlerError(res.err), "Create", {}, res.users)
    ELSE Answer(Success(StatusCreated), "Create", {id}, res.users)

\* UserHandler.List
UserHandlerList(ctx, us) ==
    IF ~isAdmin(ctx) THEN Answer(Forbidden("admin access required"), "", {}, us)
    ELSE Answer(Success(StatusOK), "List", Stored(us), us)

\* UserHandler.Get
UserHandlerGet(ctx, id, us) ==
    LET res == GetByID(us, id) IN
    IF id = "" THEN Answer(BadRequest("user id is required"), "", {}, us)
    ELSE IF ~canAccessUser(ctx, id) THEN Answer(Forbidden("access denied"), "", {}, us)
    ELSE IF res.err # NoError THEN Answer(UserHandlerError(res.err), "GetByID", {}, us)
    ELSE Answer(Success(StatusOK), "GetByID", {res.user.id}, us)

\* UserHandler.Update
UserHandlerUpdate(ctx, id, body, us) ==
    LET res == Update(id, body.req, us) IN
    IF ~isAdmin(ctx) THEN Answer(Forbidden("admin access required"), "", {}, us)
    ELSE IF id = "" THEN Answer(BadRequest("user id is required"), "", {}, us)
    ELSE IF ~body.decodes THEN Answer(BadRequest("invalid request body"), "", {}, us)
    ELSE IF res.err # NoError THEN Answer(UserHandlerError(res.err), "Update", {}, res.users)
    ELSE Answer(Success(StatusOK), "Update", {id}, res.users)

\* UserHandler.Delete
UserHandlerDelete(ctx, id, us) ==
    LET res == Delete(id, us) IN
    IF ~isAdmin(ctx) THEN Answer(Forbidden("admin access required"), "", {}, us)
    ELSE IF id = "" THEN Answer(BadRequest("user id is required"), "", {}, us)
    ELSE IF res.err # NoError THEN Answer(UserHandlerError(res.err), "Delete", {}, res.users)
    ELSE Answer(Success(StatusNoContent), "Delete", {}, res.users)

-----------------------------------------------------------------------------
(* internal/domain, internal/repository, internal/service: services *)

ErrNotFound == "resource not found"
ErrNameRequired == "name is required"
ErrDescriptionRequired == "description is required"
ErrNameTooLong == "name must be at most 255 characters"
ErrDescriptionTooLong == "description must be at most 1000 characters"

\* a *string field of PatchServiceRequest that the request does not provide
Nil == "<nil>"

\* primitive.NewObjectID for services, in the order the ids are handed out
ServiceHexIDs == <<"svc1">>
ServiceIDs == {ServiceHexIDs[n] : n \in 1..Len(ServiceHexIDs)}

\* no document was ever stored under the id / the document was deleted
NoService == [exists |-> FALSE, deleted |-> FALSE]
DeletedService == [exists |-> FALSE, deleted |-> TRUE]

StoredServices(svcs) == {id \in DOMAIN svcs : svcs[id].exists}

\* the id NewObjectID hands out next, or UnknownID when the model has no more
FreshServiceID(svcs) ==
    IF \E id \in DOMAIN svcs : svcs[id] = NoService
    THEN CHOOSE id \in DOMAIN svcs : svcs[id] = NoService
    ELSE UnknownID

validateCreateServiceRequest(req) ==
    IF req.name = "" THEN ErrNameRequired
    ELSE IF StrLen(req.name) > 255 THEN ErrNameTooLong
    ELSE IF req.description = "" THEN ErrDescriptionRequired
    ELSE IF StrLen(req.description) > 1000 THEN ErrDescriptionTooLong
    ELSE NoError

validateUpdateServiceRequest(req) ==
    IF req.name = "" THEN ErrNameRequired
    ELSE IF StrLen(req.name) > 255 THEN ErrNameTooLong
    ELSE IF req.description = "" THEN ErrDescriptionRequired
    ELSE IF StrLen(req.description) > 1000 THEN ErrDescriptionTooLong
    ELSE NoError

\* MongoServiceRepository.Create: the document starts at revision 1
ServiceRepoCreate(svcs, service, id) ==
    [err |-> NoError,
     services |-> [svcs EXCEPT ![id] = [service EXCEPT !.id = id, !.revision = 1]]]

\* MongoServiceRepository.GetByID
ServiceGetByID(svcs, id) ==
    IF id = MalformedID THEN [err |-> ErrInvalidID, service |-> NoService]
    ELSE IF id \in StoredServices(svcs) THEN [err |-> NoError, service |-> svcs[id]]
    ELSE [err |-> ErrNotFound, service |-> NoService]

\* mutant: the revision is written from the struct the caller read, not incremented
\* in the store
ServiceRepoUpdate_SetsRevision(svcs, service) ==
    IF service.id \notin StoredServices(svcs) THEN [err |-> ErrNotFound, services |-> svcs]
    ELSE [err |-> NoError,
          services |-> [svcs EXCEPT ![service.id].name = service.name,
                                    ![service.id].description = service.description,
                                    ![service.id].revision = service.revision + 1]]

\* MongoServiceRepository.Update: UpdateOne by _id with $set of name and
\* description and $inc of revision; ErrNotFound when no document matched
ServiceRepoUpdate(svcs, service) ==
    IF service.id \notin StoredServices(svcs) THEN [err |-> ErrNotFound, services |-> svcs]
    ELSE [err |-> NoError,
          services |-> [svcs EXCEPT ![service.id].name = service.name,
                                    ![service.id].description = service.description,
                                    ![service.id].revision = @ + 1]]

\* MongoServiceRepository.Delete
ServiceRepoDelete(svcs, id) ==
    IF id = MalformedID THEN [err |-> ErrInvalidID, services |-> svcs]
    ELSE IF id \notin StoredServices(svcs) THEN [err |-> ErrNotFound, services |-> svcs]
    ELSE [err |-> NoError, services |-> [svcs EXCEPT ![id] = DeletedService]]

\* ServiceService.Create
ServiceCreate(req, svcs, id) ==
    LET service == [exists |-> TRUE, id |-> "", name |-> req.name,
                    description |-> req.description, revision |-> 0] IN
    IF validateCreateServiceRequest(req) # NoError
    THEN [err |-> validateCreateServiceRequest(req), services |-> svcs]
    ELSE ServiceRepoCreate(svcs, service, id)

\* ServiceService.Update up to the call of serviceRepo.Update: the request
\* is validated, the service read and its fields set in the struct
ServiceUpdateRead(id, req, svcs) ==
    LET found == ServiceGetByID(svcs, id) IN
    IF validateUpdateServiceRequest(req) # NoError
    THEN [err |-> validateUpdateServiceRequest(req), service |-> NoService]
    ELSE IF found.err # NoError THEN found
    ELSE [err |-> NoError,
          service |-> [found.service EXCEPT !.name = req.name, !.description = req.description]]

\* ServiceService.Patch up to the call of serviceRepo.Update: the service is
\* read, and the fields the request provides are validated and set in the struct
ServicePatchRead(id, req, svcs) ==
    LET found == ServiceGetByID(svcs, id) IN
    IF found.err # NoError THEN found
    ELSE IF req.name # Nil /\ StrLen(req.name) = 0 THEN [err |-> ErrNameRequired, service |-> NoService]
    ELSE IF req.name # Nil /\ StrLen(req.name) > 255 THEN [err |-> ErrNameTooLong, service |-> NoService]
    ELSE IF req.description # Nil /\ StrLen(req.description) = 0
    THEN [err |-> ErrDescriptionRequired, service |-> NoService]
    ELSE IF req.description # Nil /\ StrLen(req.description) > 1000
    THEN [err |-> ErrDescriptionTooLong, service |-> NoService]
    ELSE [err |-> NoError,
          service |-> [found.service EXCEPT
                          !.name = IF req.name # Nil THEN req.name ELSE @,
                          !.description = IF req.description # Nil THEN req.description ELSE @]]

\* the rest of ServiceService.Update and Patch: serviceRepo.Update with the
\* struct, then the service is fetched again for the answer
ServiceWrite(service, svcs) ==
    LET saved == ServiceRepoUpdate(svcs, service)
        again == ServiceGetByID(saved.services, service.id) IN
    IF saved.err # NoError THEN [err |-> saved.err, services |-> saved.services, service |-> NoService]
    ELSE [err |-> again.err, services |-> saved.services, service |-> again.service]

\* ServiceService.Delete
ServiceDelete(id, svcs) == ServiceRepoDelete(svcs, id)

-----------------------------------------------------------------------------
(* internal/repository: ConnectMongoDB, delays in seconds *)

maxRetries == 5
initialDelay == 1
maxDelay == 30
backoffFactor == 2

min(a, b) == IF a < b THEN a ELSE b

\* ConnectMongoDB at its entry: the first attempt is about to connect
Connecting ==
    [pc |-> "connect", attempt |-> 1, delay |-> initialDelay, client |-> FALSE, err |-> NoError,
     slept |-> <<>>, log |-> <<>>]

\* ConnectMongoDB has returned the client from its first attempt
Connected ==
    [Connecting EXCEPT !.pc = "done", !.client = TRUE, !.log = <<"Successfully connected to MongoDB">>]

\* mutant: every failed attempt is followed by a sleep and another attempt
retry_WithoutEnd(c, what) ==
    [c EXCEPT !.pc = "sleep", !.log = Append(@, what)]

\* what both error branches of the loop do after a failed connect or ping:
\* log it, then sleep and go on while attempts are left, or return the error
retry(c, what) ==
    IF c.attempt < maxRetries
    THEN [c EXCEPT !.pc = "sleep", !.log = Append(@, what)]
    ELSE [c EXCEPT !.pc = "done", !.client = FALSE, !.log = Append(@, what),
                   !.err = what]

\* mongo.Connect of the attempt, which succeeds or fails
ConnectStep(c, ok) ==
    IF ok THEN [c EXCEPT !.pc = "ping"] ELSE retry(c, "failed to connect to MongoDB")

\* client.Ping of the attempt, which succeeds or fails
PingStep(c, ok) ==
    IF ok THEN [c EXCEPT !.pc = "done", !.client = TRUE,
                         !.log = Append(@, "Successfully connected to MongoDB")]
    ELSE retry(c, "failed to ping MongoDB")

\* time.Sleep(delay); delay = min(delay*backoffFactor, maxDelay); continue
SleepStep(c) ==
    [c EXCEPT !.pc = "connect", !.slept = Append(@, c.delay),
              !.delay = min(c.delay * backoffFactor, maxDelay), !.attempt = @ + 1]

-----------------------------------------------------------------------------
(* The requests and tokens the environment may present *)

\* the (userID, email, role) triples tokens are generated for directly
Identities ==
    {[uid |-> "oid1", email |-> "a@x.io", role |-> "user"],
     [uid |-> "oid2", email |-> "b@x.io", role |-> "admin"]}

\* tokens made without the secret: not a JWS at all, signed with another key,
\* unsigned (alg none), or naming a non-HMAC algorithm
ForgedTokens(t) ==
    {GarbageToken,
     SignedToken("HS256", AttackerKey, "oid2", "b@x.io", "admin", TokenTypeAccess, t, AccessTTL),
     SignedToken("none", "", "oid2", "b@x.io", "admin", TokenTypeAccess, t, AccessTTL),
     SignedToken("RS256", SecretKey, "oid2", "b@x.io", "admin", TokenTypeRefresh, t, RefreshTTL)}

NoAuthHeader == [scheme |-> "", cred |-> NoToken]

AuthHeaders ==
    {NoAuthHeader, [scheme |-> "Basic ", cred |-> GarbageToken]}
    \cup {[scheme |-> BearerPrefix, cred |-> tok] : tok \in issued \cup ForgedTokens(now)}
    \cup {[scheme |-> "bearer ", cred |-> tok] : tok \in issued}

Requests ==
    [path : {HealthPath, "/api/v1/services"}, authorization : AuthHeaders, apiKey : KeyValues]

NoRequest == [path |-> "", authorization |-> NoAuthHeader, apiKey |-> ""]
NoResponse ==
    [req |-> NoRequest, status |-> 0, message |-> "", next |-> FALSE, ctx |-> EmptyCtx,
     contentType |-> "", body |-> <<>>]

NoCall == [op |-> "none"]

\* no request is being answered and no call is under way
Idle == gate = NoResponse /\ last = NoCall

-----------------------------------------------------------------------------
(* The middleware in front of a downstream handler, with a JWT manager     *)
(* whose Generate methods are called directly, as the package tests do     *)

InitGate ==
    /\ apiKeys \in KeyConfigs
    /\ jwtManager \in {"nil", "set"}
    /\ now = 0
    /\ issued = {}
    /\ gate = NoResponse
    /\ users = [id \in UserIDs |-> NoUser]
    /\ nextID = 1
    /\ last = NoCall
    /\ revoked = {}
    /\ used = {}
    /\ inflight = {}
    /\ services = [id \in ServiceIDs |-> NoService]
    /\ updates = [id \in ServiceIDs |-> 0]
    /\ connection = Connected

\* time.Now() advances
Tick ==
    /\ Idle
    /\ now < MaxTime
    /\ now' = now + 1
    /\ UNCHANGED <<apiKeys, jwtManager, issued, gate, users, nextID, last, revoked, used, inflight, services, updates, connection>>

IssueAccessToken ==
    /\ Idle
    /\ jwtManager = "set"
    /\ \E i \in Identities :
          issued' = issued \cup {GenerateAccessToken(i.uid, i.email, i.role, now)}
    /\ Cardinality(issued') <= MaxIssued
    /\ UNCHANGED <<apiKeys, jwtManager, now, gate, users, nextID, last, revoked, used, inflight, services, updates, connection>>

IssueRefreshToken ==
    /\ Idle
    /\ jwtManager = "set"
    /\ \E i \in Identities :
          issued' = issued \cup {GenerateRefreshToken(i.uid, i.email, i.role, now)}
    /\ Cardinality(issued') <= MaxIssued
    /\ UNCHANGED <<apiKeys, jwtManager, now, gate, users, nextID, last, revoked, used, inflight, services, updates, connection>>

\* one request out of reqs through Middleware.Authenticate; the handler runs
\* to its end before the next request is taken up
AuthenticateOf(reqs) ==
    /\ Idle
    /\ \E req \in reqs : gate' = AuthenticateResponse(req, apiKeys, jwtManager, now)
    /\ UNCHANGED <<apiKeys, jwtManager, now, issued, users, nextID, last, revoked, used, inflight, services, updates, connection>>

Authenticate == AuthenticateOf(Requests)

\* writeUnauthorizedResponse called on its own, with a reason out of Reasons
WriteUnauthorized ==
    /\ Idle
    /\ \E reason \in Reasons : gate' = writeUnauthorizedResponse(NoRequest, reason)
    /\ UNCHANGED <<apiKeys, jwtManager, now, issued, users, nextID, last, revoked, used, inflight, services, updates, connection>>

\* the handler returns: the response has gone out and the request is over
Deliver ==
    /\ gate # NoResponse
    /\ gate' = NoResponse
    /\ UNCHANGED <<apiKeys, jwtManager, now, issued, users, nextID, last, revoked, used, inflight, services, updates, connection>>

NextGate ==
    Tick \/ IssueAccessToken \/ IssueRefreshToken \/ Authenticate \/ WriteUnauthorized \/ Deliver

SpecGate == InitGate /\ [][NextGate]_vars

-----------------------------------------------------------------------------
(* The JWT manager on its own: tokens are generated and validated by direct *)
(* calls of its methods                                                     *)

InitJWT ==
    /\ apiKeys = <<>>
    /\ jwtManager = "set"
    /\ now = 0
    /\ issued = {}
    /\ gate = NoResponse
    /\ users = [id \in UserIDs |-> NoUser]
    /\ nextID = 1
    /\ last = NoCall
    /\ revoked = {}
    /\ used = {}
    /\ inflight = {}
    /\ services = [id \in ServiceIDs |-> NoService]
    /\ updates = [id \in ServiceIDs |-> 0]
    /\ connection = Connected

\* Manager.accessTokenExpiry / refreshTokenExpiry, by token type
ExpiryOf(typ) == IF typ = TokenTypeAccess THEN AccessTTL ELSE RefreshTTL

\* the tokens forgers have made up to now
StrayTokens == UNION {ForgedTokens(t) : t \in 0..now}

\* Manager.ValidateToken called with a token of the Manager or a forged one
ManagerValidateToken ==
    /\ Idle
    /\ \E tok \in issued \cup StrayTokens :
          LET r == ValidateToken(tok, now) IN
          last' = [op |-> "validate", req |-> tok, err |-> r.err, claims |-> r.claims]
    /\ UNCHANGED <<apiKeys, jwtManager, now, issued, gate, users, nextID, revoked, used, inflight, services, updates, connection>>

\* the call returns to its caller
Return ==
    /\ last # NoCall
    /\ last' = NoCall
    /\ UNCHANGED <<apiKeys, jwtManager, now, issued, gate, users, nextID, revoked, used, inflight, services, updates, connection>>

NextJWT == Tick \/ IssueAccessToken \/ IssueRefreshToken \/ ManagerValidateToken \/ Return

SpecJWT == InitJWT /\ [][NextJWT]_vars

-----------------------------------------------------------------------------
(* secureCompare on its own: a candidate key and a configured key, as bytes *)

KeyBytes == {49, 50}

\* the keys of up to MaxKeyLen bytes
ByteStrings == SeqsUpTo(KeyBytes, MaxKeyLen)

\* secureCompare(a, b) called with a candidate and a configured key
SecureCompare ==
    /\ Idle
    /\ \E a \in ByteStrings, b \in ByteStrings :
          last' = [op |-> "compare", a |-> a, b |-> b,
                   equal |-> secureCompareBytes(a, b),
                   work |-> ConstantTimeCompare(a, b).work]
    /\ UNCHANGED <<apiKeys, jwtManager, now, issued, gate, users, nextID, revoked, used, inflight, services, updates, connection>>

NextCompare == SecureCompare \/ Return

SpecCompare == InitJWT /\ [][NextCompare]_vars

-----------------------------------------------------------------------------
(* The auth endpoints and the user service over one users collection *)

ValidEmails == {"a@x.io", "A@x.io", "b@x.io"}

\* well-formed requests, and requests with one field out of range each
RegisterRequests ==
    [email : ValidEmails \cup {"", "not-an-email", LongEmail}, password : {"password1"}, firstName : {"Al"}]
    \cup [email : {"a@x.io"}, password : {"", "short", LongPassword}, firstName : {"Al"}]
    \cup [email : {"a@x.io"}, password : {"password1"}, firstName : {" ", LongName}]

LoginRequests == [email : ValidEmails \cup {""}, password : {"", "password1", "password2"}]

CreateRequests ==
    [email : {"a@x.io", "b@x.io"}, password : {"password1"}, firstName : {"Al"},
     role : {"", RoleUser, RoleAdmin, "root"}]

UpdateRequests ==
    [email : {"a@x.io", "b@x.io"}, firstName : {"Al"}, role : {RoleUser, RoleAdmin},
     active : {"nil", "true", "false"}]

\* updates of stored and of unknown users, and updates that fail validation
UpdateCalls ==
    (UserIDs \X UpdateRequests)
    \cup ({UnknownID} \X {[email |-> "a@x.io", firstName |-> "Al", role |-> RoleUser, active |-> "false"]})
    \cup ({HexIDs[1]} \X [email : {"", "a@x.io"}, firstName : {"Al", " "}, role : {""}, active : {"nil"}])

Init ==
    /\ apiKeys = <<"k1", "k2">>
    /\ jwtManager = "set"
    /\ now = 0
    /\ issued = {}
    /\ gate = NoResponse
    /\ users = [id \in UserIDs |-> NoUser]
    /\ nextID = 1
    /\ last = NoCall
    /\ revoked = {}
    /\ used = {}
    /\ inflight = {}
    /\ services = [id \in ServiceIDs |-> NoService]
    /\ updates = [id \in ServiceIDs |-> 0]
    /\ connection = Connected

\* the id NewObjectID hands out next
FreshID == IF nextID <= Len(HexIDs) THEN HexIDs[nextID] ELSE UnknownID

\* the clients keep the tokens of a response, or let them go, and hold at most
\* MaxIssued tokens
Retained(res) ==
    IF res.err # NoError \/ res.access = NoToken THEN {issued}
    ELSE {S \in {issued \cup {res.access, res.refresh}, {res.access, res.refresh}, issued} :
             Cardinality(S) <= MaxIssued}

Outcome(op, req, okStatus, res) ==
    [op |-> op, req |-> req, err |-> res.err, access |-> res.access, refresh |-> res.refresh,
     http |-> Written(okStatus, res)]

\* POST /api/v1/auth/register, with a request out of reqs
AuthHandlerRegisterOf(reqs) ==
    /\ Idle
    /\ \E req \in reqs, salt \in Salts :
          LET res == Register(req, users, FreshID, salt, now) IN
          /\ res.err = NoError => nextID <= Len(HexIDs)
          /\ users' = res.users
          /\ nextID' = IF res.err = NoError THEN nextID + 1 ELSE nextID
          /\ issued' \in Retained(res)
          /\ last' = Outcome("register", req, StatusCreated, res)
    /\ revoked' = revoked \cap issued'
    /\ used' = used \cap issued'
    /\ UNCHANGED <<apiKeys, jwtManager, now, gate, inflight, services, updates, connection>>

AuthHandlerRegister == AuthHandlerRegisterOf(RegisterRequests)

\* POST /api/v1/auth/login
AuthHandlerLogin ==
    /\ Idle
    /\ \E req \in LoginRequests :
          LET res == Login(req, users, now) IN
          /\ issued' \in Retained(res)
          /\ last' = Outcome("login", req, StatusOK, res)
    /\ revoked' = revoked \cap issued'
    /\ used' = used \cap issued'
    /\ UNCHANGED <<apiKeys, jwtManager, now, gate, users, nextID, inflight, services, updates, connection>>

\* POST /api/v1/auth/refresh; an empty refresh_token is answered 400 by the
\* handler.  With `remember` the accepted tokens are kept in the history `used`.
AuthHandlerRefreshOf(remember) ==
    /\ Idle
    /\ \E tok \in issued \cup ForgedTokens(now) \cup {NoToken} :
          IF tok = NoToken
          THEN /\ issued' = issued
               /\ used' = used
               /\ last' = [op |-> "refresh", req |-> tok, err |-> "refresh_token is required",
                           access |-> NoToken, refresh |-> NoToken, again |-> FALSE,
                           http |-> [status |-> StatusBadRequest, error |-> "bad_request",
                                     message |-> "refresh_token is required"]]
          ELSE LET res == RefreshToken(tok, users, now) IN
               /\ issued' \in Retained(res)
               /\ used' = (IF remember /\ res.err = NoError THEN used \cup {tok} ELSE used) \cap issued'
               /\ last' = Outcome("refresh", tok, StatusOK, res) @@ [again |-> tok \in used]
    /\ revoked' = revoked \cap issued'
    /\ UNCHANGED <<apiKeys, jwtManager, now, gate, users, nextID, inflight, services, updates, connection>>

AuthHandlerRefresh == AuthHandlerRefreshOf(FALSE)

\* UserService.Create
UserServiceCreate ==
    /\ Idle
    /\ \E req \in CreateRequests, salt \in Salts :
          LET res == Create(req, users, FreshID, salt) IN
          /\ res.err = NoError => nextID <= Len(HexIDs)
          /\ users' = res.users
          /\ nextID' = IF res.err = NoError THEN nextID + 1 ELSE nextID
          /\ last' = [op |-> "create", req |-> req, err |-> res.err]
    /\ UNCHANGED <<apiKeys, jwtManager, now, issued, gate, revoked, used, inflight, services, updates, connection>>

\* the refresh tokens held for user id
RefreshTokensOf(id) == {tok \in issued : tok.typ = TokenTypeRefresh /\ tok.uid = id}

\* UserService.Update, with an id and a request out of calls
UserServiceUpdateOf(calls) ==
    /\ Idle
    /\ \E call \in calls :
          LET id == call[1]
              req == call[2]
              res == Update(id, req, users) IN
          /\ users' = res.users
          /\ last' = [op |-> "update", req |-> req, id |-> id, err |-> res.err]
          /\ revoked' = IF res.err = NoError /\ req.active = "false"
                        THEN revoked \cup RefreshTokensOf(id) ELSE revoked
    /\ UNCHANGED <<apiKeys, jwtManager, now, issued, gate, nextID, used, inflight, services, updates, connection>>

UserServiceUpdate == UserServiceUpdateOf(UpdateCalls)

\* UserService.Delete
UserServiceDelete ==
    /\ Idle
    /\ \E id \in UserIDs \cup {UnknownID, MalformedID} :
          LET res == Delete(id, users) IN
          /\ users' = res.users
          /\ last' = [op |-> "delete", req |-> id, err |-> res.err]
          /\ revoked' = IF res.err = NoError THEN revoked \cup RefreshTokensOf(id) ELSE revoked
    /\ UNCHANGED <<apiKeys, jwtManager, now, issued, gate, nextID, used, inflight, services, updates, connection>>

Next ==
    \/ Tick
    \/ AuthHandlerRegister
    \/ AuthHandlerLogin
    \/ AuthHandlerRefresh
    \/ UserServiceCreate
    \/ UserServiceUpdate
    \/ UserServiceDelete
    \/ Return

Spec == Init /\ [][Next]_vars

-----------------------------------------------------------------------------
(* Register, UserService.Create and UserService.Update as the requests of   *)
(* several clients run them: each call first reads the collection for its   *)
(* checks and later writes, and other calls may read and write in between   *)

Callers == 1..MaxInflight

RaceRegisterRequests == [email : ValidEmails \cup {"not-an-email"}, password : {"password1"}, firstName : {"Al"}]

RaceCreateRequests ==
    [email : {"a@x.io", "b@x.io"}, password : {"password1"}, firstName : {"Al"}, role : {RoleAdmin, "root"}]

RaceUpdateCalls ==
    UserIDs \X [email : {"a@x.io", "b@x.io"}, firstName : {"Al"}, role : {RoleUser, ""}, active : {"nil"}]

\* a caller has one call under way at a time
Free(c) == \A call \in inflight : call.caller # c

\* what a call that ended in its checks answers
Refused(op, req, err) ==
    [op |-> op, req |-> req, err |-> err, access |-> NoToken, refresh |-> NoToken, raced |-> FALSE]

\* Register up to and including SetPassword: validation and ExistsByEmail
RegisterBegin ==
    /\ Idle
    /\ \E c \in Callers, req \in RaceRegisterRequests, salt \in Salts :
          /\ Free(c)
          /\ IF validateRegisterRequest(req) # NoError
             THEN /\ last' = Refused("register", req, validateRegisterRequest(req))
                  /\ inflight' = inflight
             ELSE IF ExistsByEmail(users, ToLower(req.email))
             THEN /\ last' = Refused("register", req, ErrEmailAlreadyExists)
                  /\ inflight' = inflight
             ELSE /\ last' = last
                  /\ inflight' = inflight \cup
                        {[caller |-> c, op |-> "register", req |-> req,
                          user |-> [exists |-> TRUE, id |-> "", email |-> ToLower(req.email),
                                    passwordHash |-> SetPassword(req.password, salt),
                                    role |-> RoleUser, active |-> TRUE]]}
    /\ UNCHANGED <<apiKeys, jwtManager, now, issued, gate, users, nextID, revoked, used, services, updates, connection>>

\* UserService.Create up to and including SetPassword
CreateBegin ==
    /\ Idle
    /\ \E c \in Callers, req \in RaceCreateRequests, salt \in Salts :
          /\ Free(c)
          /\ IF validateCreateRequest(req) # NoError
             THEN /\ last' = Refused("create", req, validateCreateRequest(req))
                  /\ inflight' = inflight
             ELSE IF ExistsByEmail(users, ToLower(req.email))
             THEN /\ last' = Refused("create", req, ErrEmailAlreadyExists)
                  /\ inflight' = inflight
             ELSE /\ last' = last
                  /\ inflight' = inflight \cup
                        {[caller |-> c, op |-> "create", req |-> req,
                          user |-> [exists |-> TRUE, id |-> "", email |-> ToLower(req.email),
                                    passwordHash |-> SetPassword(req.password, salt),
                                    role |-> req.role, active |-> TRUE]]}
    /\ UNCHANGED <<apiKeys, jwtManager, now, issued, gate, users, nextID, revoked, used, services, updates, connection>>

\* userRepo.Create and what follows it, for a Register or Create call under
\* way: the repository draws the ObjectID and inserts
SaveNewUser ==
    /\ Idle
    /\ \E call \in {k \in inflight : k.op \in {"register", "create"}} :
          LET user == [call.user EXCEPT !.id = FreshID]
              raced == ExistsByEmail(users, user.email)
              created == RepoCreate(users, user)
              res == IF created.err # NoError THEN Failed(created.err, users)
                     ELSE IF call.op = "register" THEN generateAuthResponse(user, created.users, now)
                     ELSE created @@ [access |-> NoToken, refresh |-> NoToken] IN
          /\ res.err = NoError => nextID <= Len(HexIDs)
          /\ users' = res.users
          /\ nextID' = IF res.err = NoError THEN nextID + 1 ELSE nextID
          /\ last' = [op |-> call.op, req |-> call.req, err |-> res.err,
                      access |-> res.access, refresh |-> res.refresh, raced |-> raced]
          /\ inflight' = inflight \ {call}
    /\ UNCHANGED <<apiKeys, jwtManager, now, issued, gate, revoked, used, services, updates, connection>>

\* UserService.Update up to its write: validation, GetByID, ExistsByEmail
UpdateBegin ==
    /\ Idle
    /\ \E c \in Callers, uc \in RaceUpdateCalls :
          LET id == uc[1]
              req == uc[2]
              found == GetByID(users, id)
              newEmail == ToLower(req.email) IN
          /\ Free(c)
          /\ IF validateUpdateRequest(req) # NoError
             THEN /\ last' = Refused("update", req, validateUpdateRequest(req))
                  /\ inflight' = inflight
             ELSE IF found.err # NoError
             THEN /\ last' = Refused("update", req, found.err)
                  /\ inflight' = inflight
             ELSE IF newEmail # found.user.email /\ ExistsByEmail(users, newEmail)
             THEN /\ last' = Refused("update", req, ErrEmailAlreadyExists)
                  /\ inflight' = inflight
             ELSE /\ last' = last
                  /\ inflight' = inflight \cup
                        {[caller |-> c, op |-> "update", req |-> req,
                          user |-> [found.user EXCEPT
                                      !.email = newEmail,
                                      !.role = req.role,
                                      !.active = IF req.active = "nil" THEN @ ELSE req.active = "true"]]}
    /\ UNCHANGED <<apiKeys, jwtManager, now, issued, gate, users, nextID, revoked, used, services, updates, connection>>

\* userRepo.Update for an Update call under way
SaveUpdatedUser ==
    /\ Idle
    /\ \E call \in {k \in inflight : k.op = "update"} :
          LET raced == \E id \in Stored(users) : id # call.user.id /\ users[id].email = call.user.email
              saved == RepoUpdate(users, call.user) IN
          /\ users' = saved.users
          /\ last' = [op |-> "update", req |-> call.req, err |-> saved.err,
                      access |-> NoToken, refresh |-> NoToken, raced |-> raced]
          /\ inflight' = inflight \ {call}
    /\ UNCHANGED <<apiKeys, jwtManager, now, issued, gate, nextID, revoked, used, services, updates, connection>>

NextRace == RegisterBegin \/ CreateBegin \/ SaveNewUser \/ UpdateBegin \/ SaveUpdatedUser \/ Return

SpecRace == Init /\ [][NextRace]_vars

-----------------------------------------------------------------------------
(* The protected API as a whole: accounts are registered and then changed   *)
(* by the user service while their tokens, and forged ones, are presented   *)
(* to the middleware and to the refresh endpoint                            *)

AccountRequests == [email : {"a@x.io", "b@x.io"}, password : {"password1"}, firstName : {"Al"}]

SessionUpdateCalls ==
    UserIDs \X [email : {"a@x.io", "b@x.io"}, firstName : {"Al"}, role : {RoleUser, RoleAdmin},
                active : {"nil", "false"}]

ChangePasswordCalls ==
    (UserIDs \cup {UnknownID})
        \X [currentPassword : {"password1", "password2"}, newPassword : {"password2", "short"}]

\* requests for a protected route with a Bearer token and no API key
BearerRequests ==
    [path : {"/api/v1/users"},
     authorization : {[scheme |-> BearerPrefix, cred |-> tok] : tok \in issued \cup ForgedTokens(now)},
     apiKey : {""}]

\* UserService.ChangePassword
UserServiceChangePassword ==
    /\ Idle
    /\ \E call \in ChangePasswordCalls, salt \in Salts :
          LET res == ChangePassword(call[1], call[2], users, salt) IN
          /\ users' = res.users
          /\ last' = [op |-> "change-password", req |-> call[2], id |-> call[1], err |-> res.err]
    /\ UNCHANGED <<apiKeys, jwtManager, now, issued, gate, nextID, revoked, used, inflight, services, updates, connection>>

NextSession ==
    \/ Tick
    \/ AuthHandlerRegisterOf(AccountRequests)
    \/ AuthHandlerRefresh
    \/ UserServiceUpdateOf(SessionUpdateCalls)
    \/ UserServiceDelete
    \/ UserServiceChangePassword
    \/ AuthenticateOf(BearerRequests)
    \/ Deliver
    \/ Return

SpecSession == Init /\ [][NextSession]_vars

-----------------------------------------------------------------------------
(* The user-management routes: requests pass the middleware and reach       *)
(* UserHandler with the context it built, while accounts are registered,    *)
(* promoted by the user service and their tokens refreshed                  *)

UsersPath == "/api/v1/users"

\* the first administrator is made by the user service, not over the API
PromotionCalls ==
    UserIDs \X [email : {"a@x.io", "b@x.io"}, firstName : {"Al"}, role : {RoleUser, RoleAdmin},
                active : {"nil"}]

\* requests for the users routes: with a Bearer token, with an API key, bare
UsersRequests ==
    [path : {UsersPath},
     authorization : {NoAuthHeader} \cup {[scheme |-> BearerPrefix, cred |-> tok] : tok \in issued},
     apiKey : {"", "k1", "k3"}]

RouteIDs == UserIDs \cup {UnknownID, MalformedID, ""}

\* bodies that decode into a request, and one that is not JSON
CreateBodies ==
    [decodes : {TRUE},
     req : [email : {"a@x.io", "b@x.io"}, password : {"password1"}, firstName : {"Al"},
            role : {"", RoleAdmin, "root"}]]
    \cup [decodes : {FALSE},
          req : [email : {""}, password : {""}, firstName : {""}, role : {""}]]

UpdateBodies ==
    [decodes : {TRUE},
     req : [email : {"a@x.io", "b@x.io"}, firstName : {"Al"}, role : {RoleUser, RoleAdmin, ""},
            active : {"nil"}]]
    \cup [decodes : {FALSE},
          req : [email : {""}, firstName : {""}, role : {""}, active : {"nil"}]]

\* the middleware has passed a request for the users routes on
AtUserHandler == gate # NoResponse /\ gate.next /\ gate.req.path = UsersPath /\ last = NoCall

\* what a handler did with the request the middleware passed on
Handled(op, id, ans) ==
    [op |-> op, ctx |-> gate.ctx, id |-> id, http |-> ans.http, called |-> ans.called,
     shown |-> ans.shown]

\* POST /api/v1/users
PostUsers ==
    /\ AtUserHandler
    /\ \E body \in CreateBodies, salt \in Salts :
          LET ans == UserHandlerCreate(gate.ctx, body, users, FreshID, salt) IN
          /\ ans.users # users => nextID <= Len(HexIDs)
          /\ users' = ans.users
          /\ nextID' = IF ans.users # users THEN nextID + 1 ELSE nextID
          /\ last' = Handled("users.create", "", ans)
    /\ gate' = NoResponse
    /\ UNCHANGED <<apiKeys, jwtManager, now, issued, revoked, used, inflight, services, updates, connection>>

\* GET /api/v1/users
GetUsers ==
    /\ AtUserHandler
    /\ LET ans == UserHandlerList(gate.ctx, users) IN
          /\ users' = ans.users
          /\ last' = Handled("users.list", "", ans)
    /\ gate' = NoResponse
    /\ UNCHANGED <<apiKeys, jwtManager, now, issued, nextID, revoked, used, inflight, services, updates, connection>>

\* GET /api/v1/users/{id}
GetUser ==
    /\ AtUserHandler
    /\ \E id \in RouteIDs :
          LET ans == UserHandlerGet(gate.ctx, id, users) IN
          /\ users' = ans.users
          /\ last' = Handled("users.get", id, ans)
    /\ gate' = NoResponse
    /\ UNCHANGED <<apiKeys, jwtManager, now, issued, nextID, revoked, used, inflight, services, updates, connection>>

\* PUT /api/v1/users/{id}
PutUser ==
    /\ AtUserHandler
    /\ \E id \in RouteIDs, body \in UpdateBodies :
          LET ans == UserHandlerUpdate(gate.ctx, id, body, users) IN
          /\ users' = ans.users
          /\ last' = Handled("users.update", id, ans)
    /\ gate' = NoResponse
    /\ UNCHANGED <<apiKeys, jwtManager, now, issued, nextID, revoked, used, inflight, services, updates, connection>>

\* DELETE /api/v1/users/{id}
DeleteUser ==
    /\ AtUserHandler
    /\ \E id \in RouteIDs :
          LET ans == UserHandlerDelete(gate.ctx, id, users) IN
          /\ users' = ans.users
          /\ last' = Handled("users.delete", id, ans)
    /\ gate' = NoResponse
    /\ UNCHANGED <<apiKeys, jwtManager, now, issued, nextID, revoked, used, inflight, services, updates, connection>>

NextUsers ==
    \/ Tick
    \/ AuthHandlerRegisterOf(AccountRequests)
    \/ AuthHandlerRefresh
    \/ UserServiceUpdateOf(PromotionCalls)
    \/ AuthenticateOf(UsersRequests)
    \/ PostUsers
    \/ GetUsers
    \/ GetUser
    \/ PutUser
    \/ DeleteUser
    \/ Deliver
    \/ Return

SpecUsers == Init /\ [][NextUsers]_vars

-----------------------------------------------------------------------------
(* The service catalogue under concurrent requests: ServiceService.Update   *)
(* and Patch read the service, and other calls may read and write before    *)
(* they write                                                               *)

MaxUpdates == 3

CreateServiceRequests == [name : {"n1", ""}, description : {"d1"}]

UpdateServiceRequests ==
    [name : {"n2"}, description : {"d2"}]
    \cup [name : {"", LongServiceName}, description : {"d2"}]
    \cup [name : {"n2"}, description : {"", LongDescription}]

PatchServiceRequests ==
    [name : {Nil, "n1", "n2"}, description : {Nil, "d1", "d2"}]
    \cup [name : {"", LongServiceName}, description : {Nil}]
    \cup [name : {"n2"}, description : {"", LongDescription}]

\* the ids requests name: of services, of none, and no ObjectID at all
ServiceRouteIDs == ServiceIDs \cup {UnknownID, MalformedID}

\* the Update and Patch calls under way
Writing == {call \in inflight : call.op \in {"service.update", "service.patch"}}

\* ServiceService.Create
ServiceServiceCreate ==
    /\ Idle
    /\ \E req \in CreateServiceRequests :
          LET id == FreshServiceID(services)
              res == ServiceCreate(req, services, id) IN
          /\ res.err = NoError => id \in ServiceIDs
          /\ services' = res.services
          /\ last' = [op |-> "service.create", id |-> id, req |-> req, err |-> res.err]
    /\ UNCHANGED <<apiKeys, jwtManager, now, issued, gate, users, nextID, revoked, used, inflight,
                   updates, connection>>

\* ServiceService.Update up to serviceRepo.Update
ServiceServiceUpdate ==
    /\ Idle
    /\ \E c \in Callers, id \in ServiceRouteIDs, req \in UpdateServiceRequests :
          LET read == ServiceUpdateRead(id, req, services) IN
          /\ Free(c)
          /\ id \in ServiceIDs => updates[id] + Cardinality(Writing) < MaxUpdates
          /\ IF read.err # NoError
             THEN /\ last' = [op |-> "service.update", id |-> id, req |-> req, err |-> read.err]
                  /\ inflight' = inflight
             ELSE /\ last' = last
                  /\ inflight' = inflight \cup
                        {[caller |-> c, op |-> "service.update", id |-> id, req |-> req,
                          service |-> read.service]}
    /\ UNCHANGED <<apiKeys, jwtManager, now, issued, gate, users, nextID, revoked, used, services,
                   updates, connection>>

\* ServiceService.Patch up to serviceRepo.Update
ServiceServicePatch ==
    /\ Idle
    /\ \E c \in Callers, id \in ServiceRouteIDs, req \in PatchServiceRequests :
          LET read == ServicePatchRead(id, req, services) IN
          /\ Free(c)
          /\ id \in ServiceIDs => updates[id] + Cardinality(Writing) < MaxUpdates
          /\ IF read.err # NoError
             THEN /\ last' = [op |-> "service.patch", id |-> id, req |-> req, err |-> read.err]
                  /\ inflight' = inflight
             ELSE /\ last' = last
                  /\ inflight' = inflight \cup
                        {[caller |-> c, op |-> "service.patch", id |-> id, req |-> req,
                          service |-> read.service]}
    /\ UNCHANGED <<apiKeys, jwtManager, now, issued, gate, users, nextID, revoked, used, services,
                   updates, connection>>

\* serviceRepo.Update and the second GetByID of an Update or Patch under way
ServiceServiceWrite ==
    /\ Idle
    /\ \E call \in Writing :
          LET res == ServiceWrite(call.service, services) IN
          /\ services' = res.services
          /\ updates' = IF res.services # services \/ res.err = NoError
                        THEN [updates EXCEPT ![call.id] = @ + 1] ELSE updates
          /\ last' = [op |-> call.op, id |-> call.id, req |-> call.req, err |-> res.err,
                      read |-> call.service, before |-> services[call.id]]
          /\ inflight' = inflight \ {call}
    /\ UNCHANGED <<apiKeys, jwtManager, now, issued, gate, users, nextID, revoked, used, connection>>

\* ServiceService.Delete
ServiceServiceDelete ==
    /\ Idle
    /\ \E id \in ServiceRouteIDs :
          LET res == ServiceDelete(id, services) IN
          /\ services' = res.services
          /\ last' = [op |-> "service.delete", id |-> id, req |-> "", err |-> res.err]
    /\ UNCHANGED <<apiKeys, jwtManager, now, issued, gate, users, nextID, revoked, used, inflight,
                   updates, connection>>

NextServices ==
    \/ ServiceServiceCreate
    \/ ServiceServiceUpdate
    \/ ServiceServicePatch
    \/ ServiceServiceWrite
    \/ ServiceServiceDelete
    \/ Return

SpecServices == Init /\ [][NextServices]_vars

-----------------------------------------------------------------------------
(* Start-up: main calls ConnectMongoDB before anything else is set up, and  *)
(* each mongo.Connect and each Ping may succeed or fail                     *)

InitConnect ==
    /\ apiKeys = <<>>
    /\ jwtManager = "nil"
    /\ now = 0
    /\ issued = {}
    /\ gate = NoResponse
    /\ users = [id \in UserIDs |-> NoUser]
    /\ nextID = 1
    /\ last = NoCall
    /\ revoked = {}
    /\ used = {}
    /\ inflight = {}
    /\ services = [id \in ServiceIDs |-> NoService]
    /\ updates = [id \in ServiceIDs |-> 0]
    /\ connection = Connecting

\* mongo.Connect of the current attempt
MongoConnect ==
    /\ connection.pc = "connect"
    /\ \E ok \in BOOLEAN : connection' = ConnectStep(connection, ok)
    /\ UNCHANGED <<apiKeys, jwtManager, now, issued, gate, users, nextID, last, revoked, used,
                   inflight, services, updates>>

\* client.Ping of the current attempt
MongoPing ==
    /\ connection.pc = "ping"
    /\ \E ok \in BOOLEAN : connection' = PingStep(connection, ok)
    /\ UNCHANGED <<apiKeys, jwtManager, now, issued, gate, users, nextID, last, revoked, used,
                   inflight, services, updates>>

\* time.Sleep(delay) between two attempts
MongoSleep ==
    /\ connection.pc = "sleep"
    /\ connection' = SleepStep(connection)
    /\ UNCHANGED <<apiKeys, jwtManager, now, issued, gate, users, nextID, last, revoked, used,
                   inflight, services, updates>>

NextConnect == MongoConnect \/ MongoPing \/ MongoSleep

SpecConnect == InitConnect /\ [][NextConnect]_vars

\* the same, with every step taken as long as one is possible
FairSpecConnect == SpecConnect /\ WF_vars(NextConnect)

-----------------------------------------------------------------------------
(* Token refresh over time: accounts are registered, deactivated, restored  *)
(* and deleted while their refresh tokens are exchanged, and the exchanges  *)
(* that succeeded are remembered                                            *)

ActivationCalls ==
    UserIDs \X [email : {"a@x.io", "b@x.io"}, firstName : {"Al"}, role : {RoleUser},
                active : {"true", "false"}]

NextRefresh ==
    \/ Tick
    \/ AuthHandlerRegisterOf(AccountRequests)
    \/ AuthHandlerRefreshOf(TRUE)
    \/ UserServiceUpdateOf(ActivationCalls)
    \/ UserServiceDelete
    \/ Return

SpecRefresh == Init /\ [][NextRefresh]_vars

-----------------------------------------------------------------------------
(* Properties of the middleware, checked under SpecGate *)

\* the request being answered went through authentication (not the health path)
Guarded == gate # NoResponse /\ gate.req # NoRequest /\ gate.req.path # HealthPath
Bearer == HasBearerPrefix(gate.req.authorization)
Presented == gate.req.authorization.cred
Rejected == gate.status = StatusUnauthorized /\ ~gate.next /\ gate.ctx = EmptyCtx
Configured(key) == \E i \in 1..Len(apiKeys) : apiKeys[i] = key

\* signed by the Manager and not yet expired at the time of the request
Live(tok) == tok \in issued /\ now < tok.exp

\* C1: a Bearer request carrying a Manager-signed, unexpired refresh token is
\* answered 401; the downstream handler is not called and no identity is attached
C1_RefreshTokenRejected ==
    (Guarded /\ Bearer /\ Live(Presented) /\ Presented.typ = TokenTypeRefresh) => Rejected

C1_Witness ==
    /\ Guarded /\ Bearer /\ Live(Presented) /\ Presented.typ = TokenTypeRefresh
    /\ gate.status = StatusUnauthorized

\* C2: once the Authorization header has the Bearer prefix the token alone
\* decides: a token that is not a live access token is answered 401, whatever
\* X-API-Key says, even a configured key
C2_NoFallbackToAPIKey ==
    (Guarded /\ Bearer /\ ~(Live(Presented) /\ Presented.typ = TokenTypeAccess))
        => (Rejected /\ gate.message = "invalid or expired token")

C2_Witness ==
    /\ Guarded /\ Bearer /\ ~(Live(Presented) /\ Presented.typ = TokenTypeAccess)
    /\ gate.req.apiKey # "" /\ Configured(gate.req.apiKey)
    /\ gate.status = StatusUnauthorized

\* C3: with no key configured every request presenting a non-empty X-API-Key
\* (and no Bearer header) is answered 401 and not passed on
C3_FailClosed ==
    (Guarded /\ ~Bearer /\ gate.req.apiKey # "" /\ Len(apiKeys) = 0) => Rejected

C3_Witness ==
    /\ Guarded /\ ~Bearer /\ gate.req.apiKey # "" /\ Len(apiKeys) = 0
    /\ gate.status = StatusUnauthorized

FirstPosition(key) == CHOOSE i \in 1..Len(apiKeys) : apiKeys[i] = key /\ \A j \in 1..(i - 1) : apiKeys[j] # key

\* C4: a non-empty X-API-Key (no Bearer header) is accepted iff it equals a
\* configured key; the index put in the context is the 0-based position of
\* the first configured key equal to it; any other value is answered 401
C4_FirstMatchIndex ==
    (Guarded /\ ~Bearer /\ gate.req.apiKey # "") =>
        /\ gate.next <=> Configured(gate.req.apiKey)
        /\ gate.next =>
              /\ gate.ctx.present = {"api_key_id", "auth_type"}
              /\ gate.ctx.authType = AuthTypeAPIKey
              /\ gate.ctx.apiKeyID = FirstPosition(gate.req.apiKey) - 1
        /\ ~gate.next => Rejected

\* accepted with a key configured twice, and accepted at index 1
C4_Witness ==
    /\ Guarded /\ ~Bearer /\ gate.next
    /\ \E i, j \in 1..Len(apiKeys) : i < j /\ apiKeys[i] = gate.req.apiKey /\ apiKeys[j] = gate.req.apiKey
    /\ gate.ctx.apiKeyID = 0

\* C5: a Bearer request carrying a live access token of the Manager is passed
\* on with the token's userID, email and role and AuthType jwt, whatever
\* X-API-Key says and whatever keys are configured
C5_AccessTokenIdentity ==
    (Guarded /\ Bearer /\ Live(Presented) /\ Presented.typ = TokenTypeAccess) =>
        /\ gate.next
        /\ gate.ctx.present = {"user_id", "user_email", "user_role", "auth_type"}
        /\ gate.ctx.userID = Presented.uid
        /\ gate.ctx.email = Presented.email
        /\ gate.ctx.role = Presented.role
        /\ gate.ctx.authType = AuthTypeJWT

\* passed on although X-API-Key names no configured key
C5_Witness ==
    /\ Guarded /\ Bearer /\ Live(Presented) /\ Presented.typ = TokenTypeAccess
    /\ gate.req.apiKey # "" /\ ~Configured(gate.req.apiKey)
    /\ gate.next /\ gate.ctx.role = "admin"

\* C6: without a Bearer header and with X-API-Key absent or empty the answer
\* is 401 "authentication required", also when "" is a configured key
C6_NoCredentials ==
    (Guarded /\ ~Bearer /\ gate.req.apiKey = "")
        => (Rejected /\ gate.message = "authentication required")

C6_Witness ==
    /\ Guarded /\ ~Bearer /\ gate.req.apiKey = "" /\ Configured("")
    /\ gate.status = StatusUnauthorized

\* C7: a request for /health is always passed on, with nothing attached to
\* its context, whatever its headers and the configuration
C7_HealthBypass ==
    (gate # NoResponse /\ gate.req.path = HealthPath) => (gate.next /\ gate.ctx = EmptyCtx)

\* passed on with a forged Bearer token and an unknown key
C7_Witness ==
    /\ gate # NoResponse /\ gate.req.path = HealthPath
    /\ Bearer /\ Presented \notin issued
    /\ gate.req.apiKey # "" /\ ~Configured(gate.req.apiKey)
    /\ gate.next

-----------------------------------------------------------------------------
(* Further properties of the middleware, checked under SpecGate *)

\* IsJWTAuth and IsAPIKeyAuth as a downstream handler sees them
IsJWTAuth(ctx) == "auth_type" \in ctx.present /\ ctx.authType = AuthTypeJWT
IsAPIKeyAuth(ctx) == "auth_type" \in ctx.present /\ ctx.authType = AuthTypeAPIKey

\* C19: a request passed on from any path but /health carries exactly one
\* identity, and the AuthType says which: jwt with userID, email and role and
\* no API-key index, or api_key with an index and no userID, email or role
C19_OneIdentity ==
    (Guarded /\ gate.next) =>
        \/ /\ IsJWTAuth(gate.ctx) /\ ~IsAPIKeyAuth(gate.ctx)
           /\ gate.ctx.present = {"user_id", "user_email", "user_role", "auth_type"}
        \/ /\ IsAPIKeyAuth(gate.ctx) /\ ~IsJWTAuth(gate.ctx)
           /\ gate.ctx.present = {"api_key_id", "auth_type"}
           /\ gate.ctx.apiKeyID \in 0..(Len(apiKeys) - 1)

\* a request with a live access token and a configured API key is passed on
\* as jwt, without an API-key index
C19_Witness ==
    /\ Guarded /\ gate.next /\ Bearer
    /\ gate.req.apiKey # "" /\ Configured(gate.req.apiKey)
    /\ IsJWTAuth(gate.ctx) /\ "api_key_id" \notin gate.ctx.present

\* the message as it should read: backslashes doubled, quotes preceded by one
RECURSIVE Escaped(_)
Escaped(s) ==
    IF s = <<>> THEN <<>>
    ELSE (IF Head(s) = Backslash THEN <<Backslash, Backslash>>
          ELSE IF Head(s) = Quote THEN <<Backslash, Quote>>
          ELSE <<Head(s)>>) \o Escaped(Tail(s))

\* a JSON reader's view of the message: \\ is a backslash and \" a quote; a
\* bare quote or a backslash before anything else does not belong there
RECURSIVE unescapeJSON(_)
unescapeJSON(s) ==
    IF s = <<>> THEN <<>>
    ELSE IF Head(s) = Quote THEN <<"(string ends)">>
    ELSE IF Head(s) # Backslash THEN <<Head(s)>> \o unescapeJSON(Tail(s))
    ELSE IF Len(s) >= 2 /\ s[2] \in {Backslash, Quote} THEN <<s[2]>> \o unescapeJSON(Tail(Tail(s)))
    ELSE <<"(bad escape)">>

\* the message part of a response body
MessageOf(body) == SubSeq(body, Len(BodyPrefix) + 1, Len(body) - Len(BodySuffix))

\* C20: every 401 of the middleware has Content-Type application/json and the
\* body {"error":"unauthorized","message":"M"} with M the reason escaped, and
\* unescaping M gives the reason back
C20_UnauthorizedBody ==
    (gate.status = StatusUnauthorized) =>
        /\ ~gate.next
        /\ gate.contentType = "application/json"
        /\ gate.body = BodyPrefix \o Escaped(Chars(gate.message)) \o BodySuffix
        /\ unescapeJSON(MessageOf(gate.body)) = Chars(gate.message)

\* a reason that has a backslash right before a quote
C20_Witness ==
    /\ gate.status = StatusUnauthorized
    /\ \E n \in 1..(Len(Chars(gate.message)) - 1) :
          Chars(gate.message)[n] = Backslash /\ Chars(gate.message)[n + 1] = Quote
    /\ unescapeJSON(MessageOf(gate.body)) = Chars(gate.message)

\* C21: every failed Bearer attempt gets one and the same body, whatever was
\* wrong with the token, and every failed API-key attempt one and the same
\* body, whether no key is configured or none matches; the submitted key is
\* no part of the body
C21_UniformRejection ==
    /\ (Guarded /\ Bearer /\ ~gate.next) =>
          /\ gate.status = StatusUnauthorized
          /\ gate.body = BodyPrefix \o <<"invalid or expired token">> \o BodySuffix
    /\ (Guarded /\ ~Bearer /\ gate.req.apiKey # "" /\ ~gate.next) =>
          /\ gate.status = StatusUnauthorized
          /\ gate.body = BodyPrefix \o <<"invalid credentials">> \o BodySuffix
          /\ \A n \in 1..Len(gate.body) : gate.body[n] # gate.req.apiKey

\* a token of the Manager that has expired gets the body a forged one gets
C21_Witness ==
    /\ Guarded /\ Bearer /\ ~gate.next
    /\ Presented \in issued /\ Presented.typ = TokenTypeAccess /\ ~(now < Presented.exp)
    /\ gate.body = BodyPrefix \o <<"invalid or expired token">> \o BodySuffix

-----------------------------------------------------------------------------
(* Properties of the auth service, checked under Spec.  While a call's     *)
(* outcome is in `last` nothing else runs, so `users`, `issued` and `now`  *)
(* are those the call saw.                                                 *)

\* the stored users whose email is the given one, letter case aside
UsersWithEmail(email) == {id \in Stored(users) : users[id].email = ToLower(email)}

NoSuchUser(req) == UsersWithEmail(req.email) = {}
WrongPassword(req) == \E id \in UsersWithEmail(req.email) : ~CheckPassword(users[id].passwordHash, req.password)
Inactive(req) == \E id \in UsersWithEmail(req.email) : ~users[id].active

NoTokens == last.access = NoToken /\ last.refresh = NoToken

\* C8: a login with non-empty email and password gets one and the same answer,
\* InvalidCredentials as 401 "invalid credentials" and no token, when no user has
\* the email, when the password is wrong, and when the user is inactive
C8_LoginFailuresAlike ==
    (/\ last.op = "login"
     /\ last.req.email # "" /\ last.req.password # ""
     /\ (NoSuchUser(last.req) \/ WrongPassword(last.req) \/ Inactive(last.req)))
    => /\ last.err = ErrInvalidCredentials
       /\ last.http = [status |-> StatusUnauthorized, error |-> "unauthorized", message |-> "invalid credentials"]
       /\ NoTokens

\* an inactive user presenting the right password
C8_Witness ==
    /\ last.op = "login"
    /\ Inactive(last.req) /\ ~WrongPassword(last.req)
    /\ last.err = ErrInvalidCredentials

\* the user a token names is stored and active
ActiveUser(tok) == tok.uid \in Stored(users) /\ users[tok.uid].active

\* C9 as stated: a refresh token whose user was deleted or deactivated after
\* it was issued is refused by every later RefreshToken call
C9_RevokedForGood ==
    (last.op = "refresh" /\ last.req \in revoked /\ now < last.req.exp)
        => (last.err = ErrInvalidCredentials /\ NoTokens)

\* C9 as amended: such a token is refused by every RefreshToken call made
\* while the user is deleted or inactive
C9_RefusedWhileInactive ==
    (last.op = "refresh" /\ last.req \in revoked /\ now < last.req.exp /\ ~ActiveUser(last.req))
        => (last.err = ErrInvalidCredentials /\ NoTokens)

\* a live refresh token of a deactivated, still stored user is refused
C9_Witness ==
    /\ last.op = "refresh" /\ last.req \in revoked /\ now < last.req.exp
    /\ last.req.uid \in Stored(users) /\ ~users[last.req.uid].active
    /\ last.err = ErrInvalidCredentials

\* C10: RefreshToken refuses a Manager-signed, unexpired access token with
\* InvalidCredentials and issues nothing
C10_AccessTokenNotRefreshable ==
    (/\ last.op = "refresh"
     /\ last.req \in issued /\ last.req.typ = TokenTypeAccess /\ now < last.req.exp)
    => (last.err = ErrInvalidCredentials /\ NoTokens)

\* the access token of a stored, active user is refused
C10_Witness ==
    /\ last.op = "refresh"
    /\ last.req \in issued /\ last.req.typ = TokenTypeAccess /\ now < last.req.exp
    /\ ActiveUser(last.req)
    /\ last.err = ErrInvalidCredentials

\* the stored, active users req's email names, letter case aside, whose
\* password is req's
AccountOf(req) ==
    {id \in UsersWithEmail(req.email) :
        users[id].active /\ CheckPassword(users[id].passwordHash, req.password)}

\* C14: a login with the email, in any letter case, and the password of a
\* registered account succeeds, and ValidateToken on the access token returned
\* gives the stored user's id, email and role and the token type access
C14_LoginRoundTrip ==
    (/\ last.op = "login"
     /\ last.req.email # "" /\ last.req.password # ""
     /\ AccountOf(last.req) # {})
    => /\ last.err = NoError
       /\ LET r == ValidateToken(last.access, now) IN
          /\ r.err = NoError
          /\ \E id \in AccountOf(last.req) :
                /\ r.claims.uid = id
                /\ r.claims.email = users[id].email
                /\ r.claims.role = users[id].role
          /\ r.claims.typ = TokenTypeAccess

\* a login that spells the email in another letter case than the stored one
C14_Witness ==
    /\ last.op = "login" /\ AccountOf(last.req) # {}
    /\ last.req.email # ToLower(last.req.email)
    /\ last.err = NoError /\ last.access # NoToken

\* C16: a Register call that succeeds adds one user, with the lower-cased
\* email, role user, active, and the salted bcrypt hash of the password, not
\* the password itself; a Register call that fails leaves the users as they were
C16_RegisterStoresUser ==
    [][(last = NoCall /\ last'.op = "register") =>
          IF last'.err = NoError
          THEN \E id \in Stored(users') \ Stored(users) :
                  /\ Stored(users') = Stored(users) \cup {id}
                  /\ \A other \in Stored(users) : users'[other] = users[other]
                  /\ users'[id].email = ToLower(last'.req.email)
                  /\ users'[id].role = RoleUser
                  /\ users'[id].active = TRUE
                  /\ \E salt \in Salts : users'[id].passwordHash = SetPassword(last'.req.password, salt)
                  /\ users'[id].passwordHash.alg = "bcrypt"
                  /\ CheckPassword(users'[id].passwordHash, last'.req.password)
          ELSE users' = users]_vars

\* a registration that succeeded while another user was already stored
C16_Witness ==
    /\ last.op = "register" /\ last.err = NoError
    /\ Cardinality(Stored(users)) = 2
    /\ \E id \in UsersWithEmail(last.req.email) : users[id].role = RoleUser /\ users[id].active

-----------------------------------------------------------------------------
(* Properties of the protected API, checked under SpecSession *)

\* a JWS not signed under the secret, or naming an algorithm outside the HMAC family
Forged(tok) == tok.form = "jws" /\ (tok.key # SecretKey \/ tok.alg \notin HMACAlgs)

\* the JWS tokens others can make: every identity, token type and issue time,
\* under an HMAC algorithm with another key, unsigned, or under RS256
Forgeries ==
    {SignedToken(ak[1], ak[2], i.uid, i.email, i.role, typ, t, ExpiryOf(typ)) :
        ak \in {<<"HS256", AttackerKey>>, <<"HS512", AttackerKey>>, <<"none", "">>,
                <<"RS256", SecretKey>>, <<"RS256", AttackerKey>>},
        i \in Identities, typ \in {TokenTypeAccess, TokenTypeRefresh}, t \in 0..now}

\* C11: at every time between calls ValidateToken answers ErrInvalidToken,
\* without claims, for every token signed with another key or naming a
\* non-HMAC algorithm, whatever its claims, type and expiry; the middleware answers such a Bearer token 401, and
\* RefreshToken answers it InvalidCredentials and issues nothing
C11_OnlyHMACUnderSecret ==
    /\ Idle => \A tok \in Forgeries :
          Forged(tok) /\ ValidateToken(tok, now) = [err |-> ErrInvalidToken, claims |-> NoClaims]
    /\ (Guarded /\ Bearer /\ Forged(Presented)) => Rejected
    /\ (last.op = "refresh" /\ Forged(last.req))
          => (last.err = ErrInvalidCredentials /\ NoTokens)

\* a refresh token naming RS256 but made with the secret, for a stored, active
\* user, is refused by RefreshToken
C11_Witness ==
    /\ last.op = "refresh" /\ Forged(last.req)
    /\ last.req.alg \notin HMACAlgs /\ last.req.key = SecretKey
    /\ last.req.typ = TokenTypeRefresh /\ ActiveUser(last.req)
    /\ last.err = ErrInvalidCredentials

\* C18: a Bearer request with an unexpired access token of the Manager is
\* passed on with the userID, email and role signed into the token, whatever
\* has become of the user in the store since: deleted, deactivated, given
\* another role, email or password
C18_StatelessAccessToken ==
    (Guarded /\ Bearer /\ Live(Presented) /\ Presented.typ = TokenTypeAccess) =>
        /\ gate.next
        /\ gate.ctx.authType = AuthTypeJWT
        /\ gate.ctx.userID = Presented.uid
        /\ gate.ctx.email = Presented.email
        /\ gate.ctx.role = Presented.role
        /\ gate = AuthenticateResponse(gate.req, apiKeys, jwtManager, now)

\* accepted as a user although the account is by now inactive, an
\* administrator's, and under another password
C18_Witness ==
    /\ Guarded /\ Bearer /\ Live(Presented) /\ Presented.typ = TokenTypeAccess
    /\ gate.next /\ gate.ctx.role = RoleUser
    /\ Presented.uid \in Stored(users)
    /\ LET user == users[Presented.uid] IN
       /\ ~user.active
       /\ user.role = RoleAdmin
       /\ ~CheckPassword(user.passwordHash, "password1")

-----------------------------------------------------------------------------
(* Properties of concurrent calls, checked under SpecRace *)

\* C15: no two stored users have the same lower-cased email; and a Register
\* call that passed its ExistsByEmail check and finds the email taken when it
\* comes to write returns EmailAlreadyExists, stores nothing and issues no token
C15_EmailsUnique ==
    /\ \A id1, id2 \in Stored(users) :
          ToLower(users[id1].email) = ToLower(users[id2].email) => id1 = id2
    /\ (last.op = "register" /\ last.raced)
          => /\ last.err = ErrEmailAlreadyExists
             /\ NoTokens
             /\ Cardinality(UsersWithEmail(last.req.email)) = 1

\* the loser of two Register calls that were under way together for one email
C15_Witness ==
    /\ last.op = "register" /\ last.raced
    /\ last.err = ErrEmailAlreadyExists
    /\ \E id \in UsersWithEmail(last.req.email) : users[id].role = RoleUser

-----------------------------------------------------------------------------
(* Properties of token refresh, checked under SpecRefresh *)

\* C17: a refresh token that RefreshToken has accepted before is accepted
\* again, and exchanged for an access and a refresh token generated at the time
\* of the call for the stored user, whenever it is unexpired and its user is
\* stored and active
C17_RefreshTokenReusable ==
    (/\ last.op = "refresh" /\ last.again
     /\ now < last.req.exp /\ ActiveUser(last.req))
    => /\ last.err = NoError
       /\ LET user == users[last.req.uid] IN
          /\ last.access = GenerateAccessToken(user.id, user.email, user.role, now)
          /\ last.refresh = GenerateRefreshToken(user.id, user.email, user.role, now)

\* a second exchange of a token, made in a later second than its issuance
C17_Witness ==
    /\ last.op = "refresh" /\ last.again
    /\ last.err = NoError
    /\ last.refresh # NoToken /\ last.refresh # last.req

-----------------------------------------------------------------------------
(* Properties of the JWT manager, checked under SpecJWT *)

\* the instants up to now at which the Manager would have produced tok
IssueTimes(tok) ==
    {t \in 0..now : tok = generateToken(tok.uid, tok.email, tok.role, tok.typ, ExpiryOf(tok.typ), t)}

WellSigned(tok) == tok.form = "jws" /\ tok.alg \in HMACAlgs /\ tok.key = SecretKey

\* C12: a token of the Manager issued at t with TTL d is answered ErrExpiredToken
\* by ValidateToken from one second after t + d on; once expired it stays
\* expired at every later time; and ErrExpiredToken is only ever the answer
\* for a well-formed token signed under the secret with an HMAC algorithm
C12_ExpiredForGood ==
    /\ (/\ last.op = "validate" /\ last.req \in issued
         /\ \E t \in IssueTimes(last.req) : now >= t + ExpiryOf(last.req.typ) + TicksPerSecond)
        => last.err = ErrExpiredToken
    /\ \A tok \in issued : \A later \in now..(MaxTime + TicksPerSecond) :
           ValidateToken(tok, now).err = ErrExpiredToken => ValidateToken(tok, later).err = ErrExpiredToken
    /\ (last.op = "validate" /\ last.err = ErrExpiredToken) => WellSigned(last.req)

\* a Manager token validated a full second after its expiry
C12_Witness ==
    /\ last.op = "validate" /\ last.req \in issued
    /\ \E t \in IssueTimes(last.req) : now >= t + ExpiryOf(last.req.typ) + TicksPerSecond
    /\ last.err = ErrExpiredToken

\* C13: ValidateToken applied to a token at the instant GenerateAccessToken /
\* GenerateRefreshToken produced it succeeds, and the claims carry the userID,
\* email, role, token type, issuer and subject given, with nbf <= iat < exp
C13_RoundTrip ==
    \A i \in Identities, typ \in {TokenTypeAccess, TokenTypeRefresh} :
        (/\ last.op = "validate" /\ last.req \in issued
         /\ last.req = generateToken(i.uid, i.email, i.role, typ, ExpiryOf(typ), now))
        => /\ last.err = NoError
           /\ last.claims.uid = i.uid /\ last.claims.email = i.email /\ last.claims.role = i.role
           /\ last.claims.typ = typ /\ last.claims.iss = Issuer /\ last.claims.sub = i.uid
           /\ last.claims.nbf <= last.claims.iat /\ last.claims.iat < last.claims.exp

\* a refresh token generated part-way through a second and validated at once
C13_Witness ==
    /\ last.op = "validate" /\ last.req \in issued /\ last.err = NoError
    /\ last.req.typ = TokenTypeRefresh
    /\ now \in IssueTimes(last.req) /\ NumericDate(now) # now

\* C22 as stated: every token generated has iat = nbf = the time of the call
\* and exp = that time plus the expiry of its type, so exp > iat >= nbf
C22_TimestampsExact ==
    [][\A tok \in issued' \ issued :
          /\ tok.iat = now /\ tok.nbf = now
          /\ tok.exp = now + ExpiryOf(tok.typ)
          /\ tok.exp > tok.iat /\ tok.iat >= tok.nbf]_vars

\* C22 as amended: every token generated has iat = nbf = the time of the call
\* cut to the whole second and exp = that time plus the expiry of its type, cut
\* to the whole second, so exp > iat >= nbf for an expiry of a second or more
C22_TimestampsToTheSecond ==
    [][\A tok \in issued' \ issued :
          /\ tok.iat = NumericDate(now) /\ tok.nbf = NumericDate(now)
          /\ tok.exp = NumericDate(now + ExpiryOf(tok.typ))
          /\ tok.iat <= now /\ now < tok.iat + TicksPerSecond
          /\ tok.exp > tok.iat /\ tok.iat >= tok.nbf]_vars

\* a token generated part-way through a second
C22_Witness ==
    \E tok \in issued : now \in IssueTimes(tok) /\ tok.iat < now /\ tok.exp < now + ExpiryOf(tok.typ)

-----------------------------------------------------------------------------
(* Properties of secureCompare, checked under SpecCompare *)

\* the position of the first byte in which a and b differ, 0 if there is none
FirstDifference(a, b) ==
    IF \E i \in 1..Len(a) : a[i] # b[i]
    THEN CHOOSE i \in 1..Len(a) : a[i] # b[i] /\ \A j \in 1..(i - 1) : a[j] = b[j]
    ELSE 0

\* C23: for keys of equal length secureCompare compares every byte, so the
\* number of byte comparisons is the length, the same for every other
\* configured key of that length wherever it first differs; the answer is
\* true exactly for equal keys
C23_ConstantWork ==
    (last.op = "compare" /\ Len(last.a) = Len(last.b)) =>
        /\ last.work = Len(last.a)
        /\ \A other \in ByteStrings :
              Len(other) = Len(last.a) => ConstantTimeCompare(last.a, other).work = last.work
        /\ last.equal <=> last.a = last.b

\* keys of the greatest length that differ in their first byte already
C23_Witness ==
    /\ last.op = "compare" /\ Len(last.a) = Len(last.b)
    /\ Len(last.a) = MaxKeyLen /\ FirstDifference(last.a, last.b) = 1
    /\ last.work = MaxKeyLen /\ ~last.equal

-----------------------------------------------------------------------------
(* Properties of the user-management routes, in SpecUsers *)

\* the request identity is a JWT identity with the role admin
AdminIdentity(ctx) == IsJWTAuth(ctx) /\ GetUserRole(ctx).ok /\ ctx.role = RoleAdmin

ManagementOps == {"users.create", "users.list", "users.update", "users.delete"}

\* C24: UserHandler's Create, List, Update and Delete call the user service
\* only for a JWT identity with the role admin; for every other caller that
\* passed the middleware (role user, no valid role, an API-key identity) the
\* answer is 403, no service method is called and the user store stays as it was
C24_AdminOnly ==
    [][(last.op = "none" /\ last'.op \in ManagementOps) =>
          /\ last'.called # "" => AdminIdentity(last'.ctx)
          /\ users' # users => AdminIdentity(last'.ctx)
          /\ ~AdminIdentity(last'.ctx) =>
                /\ last'.http = Forbidden("admin access required")
                /\ last'.called = ""
                /\ users' = users]_vars

\* while an administrator is stored, an API-key caller has been turned away
\* from Update or Delete with 403
C24_Witness ==
    /\ last.op \in {"users.update", "users.delete"}
    /\ IsAPIKeyAuth(last.ctx)
    /\ last.http.status = StatusForbidden
    /\ \E id \in Stored(users) : users[id].role = RoleAdmin

\* the id asked for is the user id of the caller's own JWT identity
OwnIdentity(ctx, id) == IsJWTAuth(ctx) /\ GetUserID(ctx).ok /\ ctx.userID = id

\* C25: UserHandler.Get reads the user store, and can answer 200, only for
\* an admin or for the user whose own id is asked for; every other caller
\* that names an id (a non-admin asking for another id, an API-key caller)
\* gets 403 and UserService.GetByID is not called
C25_OwnOrAdmin ==
    [][(last.op = "none" /\ last'.op = "users.get" /\ last'.id # "") =>
          LET ctx == last'.ctx
              allowed == AdminIdentity(ctx) \/ OwnIdentity(ctx, last'.id) IN
          /\ last'.http.status = StatusOK => allowed /\ last'.shown = {last'.id}
          /\ last'.called # "" => allowed
          /\ ~allowed =>
                /\ last'.http = Forbidden("access denied")
                /\ last'.called = ""
                /\ last'.shown = {}
          /\ users' = users]_vars

\* a caller with the role user has asked for the stored user of another id
\* and was refused
C25_Witness ==
    /\ last.op = "users.get"
    /\ IsJWTAuth(last.ctx) /\ last.ctx.role = RoleUser
    /\ last.id \in Stored(users) /\ last.id # last.ctx.userID
    /\ last.http.status = StatusForbidden
    /\ last.called = ""

-----------------------------------------------------------------------------
(* Properties of the service catalogue, in SpecServices *)

\* the step ends a call of op on a service
Ends(ops) == last = NoCall /\ last' # NoCall /\ last'.op \in ops

\* C26: a stored service has revision 1 after its creation and revision 1+n
\* after n Update or Patch calls wrote it, whether the calls ran one after
\* the other or read the service before another wrote; an Update or Patch
\* that ends in an error leaves every stored revision as it was
C26_RevisionCountsUpdates ==
    [][/\ \A id \in StoredServices(services') : services'[id].revision = 1 + updates'[id]
       /\ (Ends({"service.create"}) /\ last'.err = NoError) =>
              /\ last'.id \in StoredServices(services')
              /\ services'[last'.id].revision = 1
       /\ (Ends({"service.update", "service.patch"}) /\ last'.err = NoError) =>
              services'[last'.id].revision = services[last'.id].revision + 1
       /\ (Ends({"service.update", "service.patch"}) /\ last'.err # NoError) =>
              services' = services]_vars

\* two calls have written the service, its revision is 3, and a call that
\* read it at revision 1 has still to write
C26_Witness ==
    /\ last # NoCall /\ last.op \in {"service.update", "service.patch"} /\ last.err = NoError
    /\ \E id \in StoredServices(services) : updates[id] = 2 /\ services[id].revision = 3
    /\ \E call \in Writing : call.service.revision = 1

\* C27: a Patch changes only the fields its request provides: one that
\* provides no description leaves the stored description as it was, one
\* that provides no name leaves the stored name as it was, also when other
\* calls wrote the service after the Patch read it; a Patch that ends in an
\* error changes nothing in the store
C27_PatchOnlyGivenFields ==
    [][Ends({"service.patch"}) =>
          IF last'.err # NoError THEN services' = services
          ELSE /\ last'.req.description = Nil =>
                     services'[last'.id].description = services[last'.id].description
               /\ last'.req.name = Nil =>
                     services'[last'.id].name = services[last'.id].name]_vars

\* C27, as the code behaves: the fields the request provides are stored as given,
\* the other field is stored as the Patch read it, and that is the stored
\* value when no other call wrote the service in between
C27_PatchWritesWhatItRead ==
    [][(Ends({"service.patch"}) /\ last'.err = NoError) =>
          LET id == last'.id
              req == last'.req
              written == services'[id]
              alone == services[id].revision = last'.read.revision IN
          /\ written.name = (IF req.name # Nil THEN req.name ELSE last'.read.name)
          /\ written.description =
                (IF req.description # Nil THEN req.description ELSE last'.read.description)
          /\ (alone /\ req.name = Nil) => written.name = services[id].name
          /\ (alone /\ req.description = Nil) => written.description = services[id].description]_vars

\* a Patch that provided only a name has put back the description it read,
\* over the description another call had stored in the meantime
C27_Witness ==
    /\ last # NoCall /\ last.op = "service.patch" /\ last.err = NoError
    /\ last.req.description = Nil /\ last.req.name # Nil
    /\ last.id \in StoredServices(services)
    /\ last.before.description # services[last.id].description
    /\ services[last.id].description = last.read.description

-----------------------------------------------------------------------------
(* Properties of the stored roles, in Spec *)

\* C28: every stored user has the role user or admin, whatever Register,
\* UserService.Create and UserService.Update calls came before, and every
\* token issued carries one of these roles
C28_RolesValid ==
    /\ \A id \in Stored(users) : IsValidRole(users[id].role)
    /\ \A tok \in issued : IsValidRole(tok.role)

\* C28, as the code behaves: a stored role is user, admin or the empty
\* string, which UserService.Create stores when the request omits the role
C28_RolesValidOrEmpty ==
    /\ \A id \in Stored(users) : users[id].role \in {RoleUser, RoleAdmin, ""}
    /\ \A tok \in issued : tok.role \in {RoleUser, RoleAdmin, ""}
    /\ (last # NoCall /\ last.op = "create" /\ last.err = NoError /\ last.req.role # "") =>
          \E id \in Stored(users) :
             users[id].email = ToLower(last.req.email) /\ users[id].role = last.req.role

\* a user created without a role is stored with the empty role and holds a
\* token that carries it
C28_Witness ==
    \E id \in Stored(users) :
       /\ users[id].role = ""
       /\ \E tok \in issued : tok.uid = id /\ tok.role = ""

-----------------------------------------------------------------------------
(* Properties of refreshed tokens, in SpecSession *)

\* C29: the access and refresh token of a successful RefreshToken carry the
\* user id, email and role of the user as stored when the refresh takes
\* place, not those of the refresh token presented
C29_RefreshUsesStoredUser ==
    [][(last = NoCall /\ last'.op = "refresh" /\ last'.err = NoError) =>
          LET presented == last'.req
              user == users[presented.uid] IN
          /\ presented.uid \in Stored(users)
          /\ \A tok \in {last'.access, last'.refresh} :
                /\ tok.uid = user.id
                /\ tok.email = user.email
                /\ tok.role = user.role
          /\ last'.access.typ = TokenTypeAccess
          /\ last'.refresh.typ = TokenTypeRefresh]_vars

\* a refresh token issued to a user was exchanged after the user became an
\* administrator with another email, and the new access token says so
C29_Witness ==
    /\ last # NoCall /\ last.op = "refresh" /\ last.err = NoError
    /\ last.req.role = RoleUser /\ last.access.role = RoleAdmin
    /\ last.req.email # last.access.email
    /\ last.access.uid = last.req.uid

-----------------------------------------------------------------------------
(* Properties of ConnectMongoDB, in FairSpecConnect *)

RECURSIVE Doubled(_, _)
\* d doubled n times
Doubled(d, n) == IF n = 0 THEN d ELSE 2 * Doubled(d, n - 1)

\* the attempts that have failed so far
FailedAttempts ==
    Len(SelectSeq(connection.log, LAMBDA line : line # "Successfully connected to MongoDB"))

\* the attempts are numbered 1 to 5; one sleep lies behind every attempt but
\* the current one, of 1s at first and twice as long each time, never more
\* than 30s; the client is returned from the first attempt without a
\* failure and the error from the 5th failed attempt, with no sleep after it
BoundedBackoff ==
    /\ connection.attempt \in 1..maxRetries
    /\ Len(connection.slept) = connection.attempt - 1
    /\ \A i \in 1..Len(connection.slept) :
          /\ connection.slept[i] = Doubled(initialDelay, i - 1)
          /\ connection.slept[i] <= maxDelay
    /\ connection.delay = Doubled(initialDelay, Len(connection.slept))
    /\ connection.delay <= maxDelay
    /\ connection.pc = "done" =>
          /\ connection.client <=> connection.err = NoError
          /\ connection.client => FailedAttempts = connection.attempt - 1
          /\ ~connection.client =>
                /\ connection.attempt = maxRetries
                /\ FailedAttempts = maxRetries
                /\ Len(connection.slept) = maxRetries - 1
    /\ connection.pc = "sleep" =>
          /\ connection.attempt < maxRetries
          /\ FailedAttempts = connection.attempt

\* C30: ConnectMongoDB returns after at most 5 attempts, given that every
\* connect, ping and sleep returns: with the client at the first attempt in
\* which connect and ping both succeed, with an error after the 5th failed
\* attempt; it sleeps only between attempts, for 1s at first and twice as
\* long after each failed attempt, never more than 30s
C30_TerminatesWithBackoff == []BoundedBackoff /\ <>(connection.pc = "done")

\* the 5th attempt has failed after sleeps of 1s, 2s, 4s and 8s, and
\* ConnectMongoDB has returned the error
C30_Witness ==
    /\ connection.pc = "done" /\ ~connection.client
    /\ connection.attempt = maxRetries
    /\ connection.slept = <<1, 2, 4, 8>>
    /\ connection.err = "failed to ping MongoDB"

====
